---------------------------- MODULE Spec2Model ----------------------------
(***************************************************************************)
(* Biometric-anchored credential and write-authorization protocol of the   *)
(* blockchain-aem content package.                                         *)
(*                                                                         *)
(* One browser tab is modelled, showing the login page or the publisher    *)
(* page.  The browser side is translated from the JavaScript of the        *)
(* package:                                                                *)
(*   BiometricManager (register, signWriteProposal and helpers),           *)
(*   the publisher page handlers (biometric-publisher.js, biometric-ui.js),*)
(*   the login page wallet setup (biometric-wallet-creation.js and its     *)
(*   earlier variant).                                                     *)
(* The challenge and proposal-verification services are servlets that are  *)
(* not part of the package; they are modelled from the written             *)
(* specification (sections 3, 4.4, 6 and 8) and marked as such.            *)
(***************************************************************************)
EXTENDS Integers, Sequences, FiniteSets, TLC

(***************************************************************************)
(* Bounds of the model.                                                    *)
(***************************************************************************)
\* credentials the authenticator mints in one behaviour
MaxCreds == 1
\* challenges the challenge service issues in one behaviour
MaxChallenges == 2
\* last instant of the discrete clock
MaxTime == 2
\* page loads after the first one in one behaviour
MaxLoads == 1

\* time-to-live of a challenge, in clock ticks
ChallengeTTL == 1

(***************************************************************************)
(* Values.                                                                 *)
(***************************************************************************)
Wallets == {"0xA", "0xB"}
NoWallet == "none"
Paths == {"/x"}
Contents == {"c1"}
Tiers == {0, 1}
\* what the form fields may hold when the publish button is clicked
FormPaths == Paths \cup {""}
FormContents == Contents \cup {""}

\* A stored or transmitted value: a tag and the credential number it is
\* computed from.  v = 0 is the all-zero placeholder key (new Uint8Array(65)).
Val(t, v) == [t |-> t, v |-> v]
Null == Val("null", 0)
ZeroKey == 0

\* credential.id of the n-th credential the authenticator creates
CredentialId(n) == Val("credentialId", n)
\* btoa(String.fromCharCode(...bytes)) of a P-256 public key
\* (_arrayBufferToBase64 and the inline btoa of the setup code)
ArrayBufferToBase64(k) == Val("p256PubKeyBase64", k)

\* deriveSecp256k1Wallet: SHA-256 of the P-256 public key, as a hex string,
\* is the secp256k1 private key; ethers.Wallet computes the public key and
\* the address from it.
PrivateKeyHex(k) == Val("secp256k1PrivateKey", k)
WalletPublicKey(priv) == Val("secp256k1PublicKey", priv.v)
WalletAddress(pub) == Val("ethAddress", pub.v)
deriveEthereumWallet(k) ==
    LET priv == PrivateKeyHex(k)
        pub  == WalletPublicKey(priv)
    IN  [address |-> WalletAddress(pub), privateKey |-> priv, publicKey |-> pub]

\* the earlier variant: '0x' + first 40 hex digits of SHA-256(qx || qy)
deriveEthereumAddress(k) == Val("truncatedHashAddress", k)

\* The public-key bytes a derivation can be called with: the all-zero
\* placeholder (ZeroKey), the keys of the credentials the authenticator
\* creates, RareKey, a well-formed key whose SHA-256 is not a scalar of
\* secp256k1 (zero, or not below the group order), and MalformedKey, bytes
\* that are no point of the registration curve.
RareKey == MaxCreds + 1
MalformedKey == MaxCreds + 2
KeyInputs == 0..(MaxCreds + 2)
WellFormedKey(k) == k \in 1..(MaxCreds + 1)

\* the private key is a scalar of secp256k1
ScalarInRange(priv) == priv.v # RareKey

\* every derived private key the model can form
PrivateKeys == {PrivateKeyHex(k) : k \in 0..(MaxCreds + 1)}

(***************************************************************************)
(* Storage keys.                                                           *)
(***************************************************************************)
CredentialKey(w) == "biometric_credential_" \o w
SetupKeys == {"blockchain_aem_wallet_address", "blockchain_aem_credential_id",
              "blockchain_aem_p256_pubkey", "blockchain_aem_secp256k1_pubkey"}
LegacySetupKeys == {"blockchain_aem_biometric_wallet",
                    "blockchain_aem_biometric_credential_id",
                    "blockchain_aem_biometric_pubkey"}
\* the key getWalletAddress of the sign-in script reads
SignInWalletKey == "blockchain_aem_wallet"
LocalKeys == {CredentialKey(w) : w \in Wallets} \cup SetupKeys \cup LegacySetupKeys
                \cup {SignInWalletKey}
SessionKeys == {"blockchain_aem_private_key"}

VARIABLES
    session,         \* the wallet the page's session resolves to: what
                     \* _getCurrentWalletAddress / getWalletAddress find
    page,            \* the page the tab shows: "login", or the publisher page
                     \* driven by biometric-publisher.js ("publisher") or by
                     \* biometric-ui.js ("authui")
    localStorage,    \* durable storage of the origin
    sessionStorage,  \* storage of the tab, discarded when the tab closes
    now,             \* the clock
    loads,           \* page loads after the first one
    regBtnDisabled,  \* #register-biometric-btn .disabled
    pubBtnDisabled,  \* #publish-biometric-btn .disabled
    regTimer,        \* a setTimeout that re-enables the register button
    pubTimer,        \* a setTimeout that re-enables the publish button
    statusPending,   \* checkBiometricStatus has not completed yet
    reg,             \* the run of handleRegistration / BiometricManager.register
    pub,             \* the run of handleBiometricPublish / signWriteProposal
    setup,           \* the run of setupBiometricWallet (login page)
    prompts,         \* hardware prompts that have been issued and not settled
    nextCred,        \* credentials minted by the authenticator so far
    challenges,      \* challenge service: the challenges issued, by nonce
    wire,            \* proposal POST bodies that have been sent
    last,            \* what the last step received and delivered
    derived          \* what the derivation functions have returned, by input

\* the sign-in script of the login page
VARIABLES
    si,              \* the run of handleBiometricSignIn
    mm,              \* the run of handleMetaMaskSignIn
    siBtnDisabled,   \* #biometric-signin-btn .disabled
    mmBtnDisabled,   \* #metamask-signin-btn .disabled
    availPending,    \* checkBiometricAvailability has not completed yet
    redirects,       \* the pending setTimeout redirects, by the run that set them
    loginChallenges, \* sign-in challenges the login endpoint has issued
    probe            \* what the latest isAvailable call met and returned

\* BlockchainWebSocketManager (home page)
VARIABLES
    reconnectAttempts, \* this.reconnectAttempts
    isConnecting,      \* this.isConnecting
    isConnected,       \* this.isConnected
    pingInterval,      \* the heartbeat interval is set
    ws,                \* this.ws: a socket, null (NoSocket) or a socket that
                       \* has closed (ClosedSocket)
    sockets,           \* the sockets whose handlers can still be called
    reconnectTimers,   \* pending setTimeout(() => this.connect())
    wsLive,            \* #ws-status shows "Live"
    wsStopped          \* the application called disconnect() and has not
                       \* called connect() since

\* BlockchainSSEManager
VARIABLES
    eventSource,       \* this.eventSource, by its readyState, or "null"
    sseConnecting,     \* this.isConnecting
    reconnectDelay,    \* this.reconnectDelay
    sseTimers          \* pending reconnect timers, counted by their delay

\* the MetaMask publish pages: oak-chain-publisher (wallet-manager.js with the
\* form handler) and the unified editor (editor.js)
VARIABLES
    authorised,         \* the account MetaMask exposes to the site
    requests,           \* pending ethereum.request calls, by method and caller
    userAccount,        \* OakChainWallet.userAccount (and, with it, .contract)
    publishBtnDisabled, \* #publishBtn .disabled
    connectBtnDisabled, \* #connectWalletBtn .disabled
    connectBtnHidden,   \* #connectWalletBtn is not displayed
    selectedTier,       \* the form handler's selectedTier
    publishes,          \* the runs of the form's handlePublish
    proposalIds,        \* proposal ids generated so far
    payments,           \* payForProposal transactions handed to the wallet
    oakWire,            \* bodies POSTed to /bin/blockchain/oak-chain-publish
    mode,               \* CONFIG.mode
    currentAccount,     \* the editor's currentAccount
    walletOnclick,      \* #wallet-status .onclick is connectWallet
    isSubmitting,       \* the editor's isSubmitting
    editorBtnDisabled,  \* #publish-btn .disabled
    isPublished,        \* the editor's isPublished
    flow,               \* the run of the editor's handlePublish
    trace               \* the steps the latest run has taken, in order

signInVars == <<si, mm, siBtnDisabled, mmBtnDisabled, availPending, redirects,
                loginChallenges, probe>>
wsVars == <<reconnectAttempts, isConnecting, isConnected, pingInterval, ws, sockets,
            reconnectTimers, wsLive, wsStopped>>
sseVars == <<eventSource, sseConnecting, reconnectDelay, sseTimers>>
metaMaskVars == <<authorised, requests>>
oakVars == <<userAccount, publishBtnDisabled, connectBtnDisabled, connectBtnHidden,
             selectedTier, publishes, proposalIds, payments, oakWire>>
editorVars == <<mode, currentAccount, walletOnclick, isSubmitting,
                editorBtnDisabled, isPublished, flow, trace>>
payVars == <<metaMaskVars, oakVars, editorVars>>
sideVars == <<signInVars, wsVars, sseVars, payVars>>
\* the state of the login and publisher pages, the observation aside
coreVars == <<session, page, localStorage, sessionStorage, now, loads,
              regBtnDisabled, pubBtnDisabled, regTimer, pubTimer, statusPending,
              reg, pub, setup, prompts, nextCred, challenges, wire, derived>>
\* what the sign-in script leaves alone, whatever it does
notSignIn == <<session, localStorage, sessionStorage, now, loads, regBtnDisabled,
               pubBtnDisabled, regTimer, pubTimer, statusPending, reg, pub, setup,
               nextCred, challenges, wire, derived, wsVars, sseVars, payVars>>
\* what the two connection managers leave alone
notWs == <<coreVars, signInVars, sseVars, payVars>>
notSse == <<coreVars, signInVars, wsVars, payVars>>
\* what the MetaMask publish pages leave alone
notPay == <<coreVars, signInVars, wsVars, sseVars>>

storeVars == <<localStorage, sessionStorage>>
uiVars == <<regBtnDisabled, pubBtnDisabled, regTimer, pubTimer, statusPending>>
vars == <<session, page, localStorage, sessionStorage, now, loads, regBtnDisabled,
          pubBtnDisabled, regTimer, pubTimer, statusPending, reg, pub, setup,
          prompts, nextCred, challenges, wire, last, derived, sideVars>>

(***************************************************************************)
(* Initial state: a fresh browser profile, a page just loaded.             *)
(***************************************************************************)
\* the device label both pages pass to register
Platform == "platform"
\* deviceName || navigator.userAgent
DeviceName(deviceName) == IF deviceName = "" THEN "userAgent" ELSE deviceName

\* `Register biometric:${walletAddress}:${credential.id}:${publicKeyBase64}`,
\* by its parts
RegistrationMessage(walletAddress, credNo, key) ==
    [prefix |-> "Register biometric", walletAddress |-> walletAddress,
     credentialId |-> CredentialId(credNo),
     publicKey |-> ArrayBufferToBase64(key)]
NoMessage == [prefix |-> "", walletAddress |-> NoWallet, credentialId |-> Null,
              publicKey |-> Null]

\* the wallet's personal_sign over a message
PersonalSign(message, walletAddress) == [signer |-> walletAddress, over |-> message]

\* the body of the POST to /bin/blockchain-aem/register-biometric
RegistrationBody(walletAddress, credNo, key, deviceName) ==
    [walletAddress |-> walletAddress,
     credentialId |-> CredentialId(credNo),
     publicKey |-> ArrayBufferToBase64(key),
     deviceName |-> DeviceName(deviceName),
     walletSignature |->
         PersonalSign(RegistrationMessage(walletAddress, credNo, key),
                      walletAddress)]
NoBody == [walletAddress |-> NoWallet, credentialId |-> Null, publicKey |-> Null,
           deviceName |-> "", walletSignature |-> PersonalSign(NoMessage, NoWallet)]

\* a run that has not started; log is the trace of the run in progress and
\* body the registration on its way to the registry
IdleRun == [pc |-> "idle", wallet |-> NoWallet, cred |-> 0, key |-> ZeroKey,
            body |-> NoBody, log |-> <<>>]
IdlePub == [pc |-> "idle", wallet |-> NoWallet, cred |-> Null, path |-> "",
            content |-> "", tier |-> 0, nonce |-> 0, proposalId |-> 0,
            request |-> <<>>, log |-> <<>>]
IdleSetup == [pc |-> "idle", variant |-> "none", cred |-> 0, key |-> ZeroKey,
              log |-> <<>>]

\* The observation of one step.
\*   who, outcome: the operation the step ended and its result or error
\*   nonce:        the challenge of the proposal the verifier answered
\*   auth:         the authenticator's answer the step received
\*   registry:     the registry's answer the step received
\*   avail:        what the step learnt about the platform authenticator
\*   consumed:     the verifier found the challenge already consumed
\*   late:         the verifier received the proposal after the expiry
Quiet == [who |-> "none", outcome |-> "", nonce |-> 0, auth |-> "",
          registry |-> "", avail |-> "", consumed |-> FALSE, late |-> FALSE]
\* an operation that ends without telling its caller anything
EndedSilently(who, outcome) == Quiet
Ended(who, outcome) == [Quiet EXCEPT !.who = who, !.outcome = outcome]
AuthEnded(who, outcome, auth) == [Ended(who, outcome) EXCEPT !.auth = auth]
RegistryEnded(who, outcome, answer) == [Ended(who, outcome) EXCEPT !.registry = answer]

Pages == {"login", "publisher", "authui"}
PublisherPages == {"publisher", "authui"}

\* biometric-publisher.js creates the publish button disabled (enabled after
\* registration); biometric-ui.js creates it enabled.
InitialPubBtnDisabled(pg) == pg = "publisher"

\* a sign-in run that has not started
\*   challenge: the sign-in challenge the run received
\*   issued:    the challenges issued when the run started
\*   body:      the sign-in on its way to the login endpoint
NoSignIn == [walletAddress |-> NoWallet, credentialId |-> Null,
             assertion |-> [cred |-> Null, challenge |-> 0], challenge |-> 0]
IdleSi == [pc |-> "idle", wallet |-> NoWallet, cred |-> Null, challenge |-> 0,
           issued |-> 0, body |-> NoSignIn, log |-> <<>>]
IdleMm == [pc |-> "idle", wallet |-> NoWallet]
NoProbe == [by |-> "", supported |-> FALSE, answer |-> "", result |-> FALSE]

\* this.maxReconnectAttempts and the sockets the model lets live at a time
maxReconnectAttempts == 10
MaxSockets == 2
MaxReconnectTimers == 2
Slots == 1..MaxSockets
NoSocket == 0
ClosedSocket == -1

\* the reconnect delays of the SSE manager
InitialReconnectDelay == 1000
maxReconnectDelay == 30000
MaxSseTimers == 2
Delays == {1000, 2000, 4000, 8000, 16000, 30000}

\* the sign-in script has not run
SignInInit ==
    /\ si = IdleSi
    /\ mm = IdleMm
    /\ siBtnDisabled = FALSE
    /\ mmBtnDisabled = FALSE
    /\ redirects = {}
    /\ loginChallenges = 0
    /\ probe = NoProbe

\* new BlockchainWebSocketManager()
WsInit ==
    /\ reconnectAttempts = 0
    /\ isConnecting = FALSE
    /\ isConnected = FALSE
    /\ pingInterval = FALSE
    /\ ws = NoSocket
    /\ sockets = [s \in Slots |-> "none"]
    /\ reconnectTimers = 0
    /\ wsLive = FALSE
    /\ wsStopped = FALSE

\* new BlockchainSSEManager()
SseInit ==
    /\ eventSource = "null"
    /\ sseConnecting = FALSE
    /\ reconnectDelay = InitialReconnectDelay
    /\ sseTimers = [d \in Delays |-> 0]

MaxAccounts == 1
MaxPending == 2
MaxPublishes == 2
MaxProposals == 2
MaxPolls == 2

\* the accounts of the MetaMask wallet; null
Accounts == 1..MaxAccounts
NoAccount == 0
\* 0 = Standard, 1 = Express, 2 = Priority
OakTiers == 0..2
Modes == {"mock", "sepolia", "mainnet"}
Methods == {"eth_accounts", "eth_requestAccounts"}
\* what made the script call ethereum.request
Callers == {"init", "connect", "visibilitychange", "focus", "click"}
RequestKinds == [method : Methods, by : Callers]
NoRequests == [k \in RequestKinds |-> 0]
Runs == 1..MaxPublishes
ProposalIds == 1..MaxProposals
IdlePublish == [pc |-> "idle", proposalId |-> 0, tier |-> 0]
NoPayment == [status |-> "none", tier |-> 0]
IdleFlow == [pc |-> "idle", polls |-> 0, kind |-> "none", running |-> 0]

\* the scripts of a publish page as they are when the page has loaded: auth
\* is what MetaMask exposes, reqs the requests made while loading, m the
\* mode of the validator and published whether the editor found its content
PayLoaded(auth, reqs, m, published) ==
    /\ authorised = auth
    /\ requests = reqs
    /\ userAccount = NoAccount
    /\ publishBtnDisabled = FALSE
    /\ connectBtnDisabled = FALSE
    /\ connectBtnHidden = FALSE
    /\ selectedTier = 0
    /\ publishes = [r \in Runs |-> IdlePublish]
    /\ proposalIds = 0
    /\ payments = [p \in ProposalIds |-> NoPayment]
    /\ oakWire = {}
    /\ mode = m
    /\ currentAccount = NoAccount
    /\ walletOnclick = TRUE
    /\ isSubmitting = FALSE
    /\ editorBtnDisabled = (m # "mock")
    /\ isPublished = published
    /\ flow = IdleFlow
    /\ trace = <<>>

\* the publish pages have not been opened
PayInit == PayLoaded(NoAccount, NoRequests, "mock", FALSE)

\* the parts of the site that are not on the page
SideInit ==
    /\ SignInInit
    /\ availPending = FALSE
    /\ WsInit
    /\ SseInit
    /\ PayInit

\* the login and publisher state of a page pg that has neither
CoreInit(pg) ==
    /\ session \in Wallets \cup {NoWallet}
    /\ page = pg
    /\ localStorage = [k \in LocalKeys |-> Null]
    /\ sessionStorage = [k \in SessionKeys |-> Null]
    /\ now = 0
    /\ loads = 0
    /\ regBtnDisabled = FALSE
    /\ pubBtnDisabled = FALSE
    /\ regTimer = FALSE
    /\ pubTimer = FALSE
    /\ statusPending = FALSE
    /\ reg = IdleRun
    /\ pub = IdlePub
    /\ setup = IdleSetup
    /\ prompts = {}
    /\ nextCred = 0
    /\ challenges = <<>>
    /\ wire = {}
    /\ last = Quiet
    /\ derived = [k \in KeyInputs |-> {}]

Init ==
    /\ SideInit
    /\ session \in Wallets \cup {NoWallet}
    /\ page \in Pages
    /\ localStorage = [k \in LocalKeys |-> Null]
    /\ sessionStorage = [k \in SessionKeys |-> Null]
    /\ now = 0
    /\ loads = 0
    /\ regBtnDisabled = FALSE
    /\ pubBtnDisabled = InitialPubBtnDisabled(page)
    /\ regTimer = FALSE
    /\ pubTimer = FALSE
    /\ statusPending = (page \in PublisherPages)
    /\ reg = IdleRun
    /\ pub = IdlePub
    /\ setup = IdleSetup
    /\ prompts = {}
    /\ nextCred = 0
    /\ challenges = <<>>
    /\ wire = {}
    /\ last = Quiet
    /\ derived = [k \in KeyInputs |-> {}]

(***************************************************************************)
(* BiometricManager helpers.                                               *)
(***************************************************************************)
\* _storeCredentialId(walletAddress, credentialId)
StoreCredentialId(ls, w, credentialId) ==
    [ls EXCEPT ![CredentialKey(w)] = credentialId]

\* a lookup that returns a stored credential id whichever wallet it belongs to
GetStoredCredentialIdOfAnyWallet(ls, w) ==
    IF \E x \in Wallets : ls[CredentialKey(x)] # Null
       THEN ls[CredentialKey(CHOOSE x \in Wallets : ls[CredentialKey(x)] # Null)]
       ELSE Null

\* _getStoredCredentialId(walletAddress)
GetStoredCredentialId(ls, w) == ls[CredentialKey(w)]

\* _extractPublicKey: the key of the attestation response when the browser
\* offers getPublicKey, otherwise a 65-byte zero placeholder
ExtractPublicKey(credNo, hasGetPublicKey) ==
    IF hasGetPublicKey THEN credNo ELSE ZeroKey

\* _extractPublicKeyFromAssertion: always the placeholder
ExtractPublicKeyFromAssertion == ZeroKey

\* a catch block that does not tell a cancellation from other failures
PromptErrorGeneric(name) == "BiometricFailed"

\* a registration that takes every answer for an acceptance
ResponseOkAlways(answer) == TRUE

\* an isAvailable that trusts the platform's answer without looking for the
\* credential API
IsAvailableWithoutApi(supported, answer) == answer = "true"

\* an availability check that takes a failed query for an available
\* authenticator
IsAvailableUnlessDenied(supported, answer) == supported /\ answer # "false"

\* isAvailable: window.PublicKeyCredential must exist and
\* isUserVerifyingPlatformAuthenticatorAvailable() must answer true; a query
\* that throws counts as not available
IsAvailable(supported, answer) == supported /\ answer = "true"

\* what the availability check was told
AvailabilityAnswers == {"true", "false", "error"}
Availability(supported, answer) == IF supported THEN answer ELSE "unsupported"

\* the catch block around navigator.credentials.create / .get: the error the
\* operation throws for the DOMException the prompt rejected with
PromptError(name) ==
    IF name = "NotAllowedError" THEN "UserCancelled" ELSE "BiometricFailed"

\* response.ok of a registration answer
ResponseOk(answer) == answer = "201"

(***************************************************************************)
(* Registration: handleRegistration (biometric-publisher.js) or            *)
(* handleBiometricRegistration (biometric-ui.js) calling                   *)
(* BiometricManager.register.  Each action runs the code from one await    *)
(* to the next.                                                            *)
(***************************************************************************)
\* The handler ends: the success block or the catch block, then finally.
\* publisher re-enables the register button from a 1000 ms timer, authui at
\* once; both enable the publish button on success.
RegEnd(o) ==
    /\ reg' = IdleRun
    /\ last' = o
    /\ pubBtnDisabled' = IF o.outcome = "ok" THEN FALSE ELSE pubBtnDisabled
    /\ IF page = "publisher"
          THEN regTimer' = TRUE /\ UNCHANGED regBtnDisabled
          ELSE regBtnDisabled' = FALSE /\ UNCHANGED regTimer

\* the handler goes on to its next await
RegStep(r, o) ==
    /\ reg' = r
    /\ last' = o
    /\ UNCHANGED <<regBtnDisabled, pubBtnDisabled, regTimer>>

\* click on #register-biometric-btn: the button is disabled, the wallet
\* lookup starts
RegClick ==
    /\ page \in PublisherPages
    /\ ~regBtnDisabled
    /\ reg.pc = "idle"
    /\ regBtnDisabled' = TRUE
    /\ reg' = [IdleRun EXCEPT !.pc = "wallet", !.log = <<"click">>]
    /\ last' = Quiet
    /\ UNCHANGED <<sideVars, derived, session, page, storeVars, now, loads, pubBtnDisabled, regTimer,
                   pubTimer, statusPending, pub, setup, prompts, nextCred,
                   challenges, wire>>

\* the wallet lookup settles: the session user, else the first MetaMask
\* account; without a wallet the handler ends
RegWallet ==
    /\ reg.pc = "wallet"
    /\ \E w \in {session, "error"} :
          IF w \in Wallets
             THEN RegStep([reg EXCEPT !.pc = "avail", !.wallet = w], Quiet)
             ELSE RegEnd(Ended("reg", IF w = NoWallet THEN "NoWallet"
                                                      ELSE "WalletLookupFailed"))
    /\ UNCHANGED <<sideVars, derived, session, page, storeVars, now, loads, pubTimer, statusPending,
                   pub, setup, prompts, nextCred, challenges, wire>>

\* register: isAvailable() settles; when available the creation options are
\* built and navigator.credentials.create is called (the hardware prompt)
RegAvail ==
    /\ reg.pc = "avail"
    /\ \E supported \in BOOLEAN, answer \in AvailabilityAnswers :
          IF IsAvailable(supported, answer)
             THEN /\ RegStep([reg EXCEPT !.pc = "prompt",
                                         !.log = Append(@, "createPrompt")],
                             [Quiet EXCEPT !.avail = Availability(supported, answer)])
                  /\ prompts' = prompts \cup {"reg"}
             ELSE /\ RegEnd([Ended("reg", "NotAvailable") EXCEPT
                               !.avail = Availability(supported, answer)])
                  /\ UNCHANGED prompts
    /\ UNCHANGED <<sideVars, derived, session, page, storeVars, now, loads, pubTimer, statusPending,
                   pub, setup, nextCred, challenges, wire>>

\* navigator.credentials.create settles.  On success the public key is
\* extracted, the registration message is built and personal_sign is
\* requested from the wallet; NotAllowedError is the user's cancellation
\* (or the prompt's timeout).
RegPromptSettle ==
    /\ reg.pc = "prompt"
    /\ prompts' = prompts \ {"reg"}
    /\ \E answer \in {"ok", "NotAllowedError", "error"},
          hasGetPublicKey \in BOOLEAN, hasEthereum \in BOOLEAN :
          CASE answer = "ok" ->
                 /\ nextCred < MaxCreds
                 /\ nextCred' = nextCred + 1
                 /\ IF hasEthereum
                       THEN RegStep([reg EXCEPT
                                       !.pc = "sign", !.cred = nextCred + 1,
                                       !.key = ExtractPublicKey(nextCred + 1,
                                                                hasGetPublicKey),
                                       !.log = Append(Append(@, "credential"),
                                                      "personalSign")],
                                    [Quiet EXCEPT !.auth = answer])
                       ELSE RegEnd(AuthEnded("reg", "NoMetaMask", answer))
            [] OTHER ->
                 /\ RegEnd(AuthEnded("reg", PromptError(answer), answer))
                 /\ UNCHANGED nextCred
    /\ UNCHANGED <<sideVars, derived, session, page, storeVars, now, loads, pubTimer, statusPending,
                   pub, setup, challenges, wire>>

\* personal_sign settles; with the signature the registration is POSTed
RegWalletSign ==
    /\ reg.pc = "sign"
    /\ \E signed \in BOOLEAN :
          IF signed
             THEN RegStep([reg EXCEPT !.pc = "fetch",
                                      !.body = RegistrationBody(reg.wallet, reg.cred,
                                                                reg.key, Platform),
                                      !.log = Append(@, "post")],
                          Quiet)
             ELSE RegEnd(Ended("reg", "WalletSignatureFailed"))
    /\ UNCHANGED <<sideVars, derived, session, page, storeVars, now, loads, pubTimer, statusPending,
                   pub, setup, prompts, nextCred, challenges, wire>>

\* the registry answers (or the transport fails).  Only a 2xx answer reaches
\* step 6, _storeCredentialId.
RegFetchDone ==
    /\ reg.pc = "fetch"
    /\ \E answer \in {"201", "DuplicateCredential", "InvalidProof",
                      "RegistryUnavailable"} :
          IF ResponseOk(answer)
             THEN /\ localStorage' = StoreCredentialId(localStorage, reg.wallet,
                                                       CredentialId(reg.cred))
                  /\ RegEnd(RegistryEnded("reg", "ok", answer))
             ELSE /\ UNCHANGED localStorage
                  /\ RegEnd(RegistryEnded("reg", answer, answer))
    /\ UNCHANGED <<sideVars, derived, session, page, sessionStorage, now, loads, pubTimer, statusPending,
                   pub, setup, prompts, nextCred, challenges, wire>>

\* the 1000 ms timer of handleRegistration's finally block
RegTimerFire ==
    /\ regTimer
    /\ regTimer' = FALSE
    /\ regBtnDisabled' = FALSE
    /\ last' = Quiet
    /\ UNCHANGED <<sideVars, derived, session, page, storeVars, now, loads, pubBtnDisabled, pubTimer,
                   statusPending, reg, pub, setup, prompts, nextCred,
                   challenges, wire>>

(***************************************************************************)
(* Challenge service and proposal verifier.  Their code is not part of the *)
(* package; this is the behaviour sections 3, 4.4, 6 and 8 of the written  *)
(* specification describe.                                                 *)
(***************************************************************************)
\* GET challenge: a new nonce and proposal id, bound to what the request
\* carried, expiring ChallengeTTL after issuance
IssueChallenge(request) ==
    [nonce |-> Len(challenges) + 1, proposalId |-> Len(challenges) + 1,
     bound |-> request, expiry |-> now + ChallengeTTL, consumed |-> FALSE,
     accepted |-> 0, acceptedLate |-> FALSE]

\* the submission agrees with everything the challenge was bound to
MatchesBinding(body, ch) ==
    /\ body.proposalId = ch.proposalId
    /\ body.signature.nonce = ch.nonce
    /\ \A f \in DOMAIN ch.bound : body[f] = ch.bound[f]

\* a verifier that does not look at the expiry
VerifyIgnoringExpiry(body, signatureVerifies) ==
    LET ch == challenges[body.challenge]
    IN  IF ch.consumed THEN "ChallengeConsumed"
        ELSE IF ~signatureVerifies \/ ~MatchesBinding(body, ch) THEN "SignatureMismatch"
        ELSE "Signed"

\* a verifier that does not look at the consumed flag
VerifyIgnoringConsumed(body, signatureVerifies) ==
    LET ch == challenges[body.challenge]
    IN  IF now > ch.expiry THEN "ChallengeExpired"
        ELSE IF ~signatureVerifies \/ ~MatchesBinding(body, ch) THEN "SignatureMismatch"
        ELSE "Signed"

\* POST proposal: a consumed challenge is refused, then an expired one, then
\* an assertion that does not verify or does not match the binding
Verify(body, signatureVerifies) ==
    LET ch == challenges[body.challenge]
    IN  IF ch.consumed THEN "ChallengeConsumed"
        ELSE IF now > ch.expiry THEN "ChallengeExpired"
        ELSE IF ~signatureVerifies \/ ~MatchesBinding(body, ch) THEN "SignatureMismatch"
        ELSE "Signed"

\* the challenge store after a submission: an accepted one consumes its
\* challenge.  accepted counts the proposals accepted under the challenge and
\* acceptedLate tells whether one was accepted after the expiry.
Consume(body, verdict) ==
    IF verdict = "Signed"
       THEN [challenges EXCEPT ![body.challenge].consumed = TRUE,
                               ![body.challenge].accepted = @ + 1,
                               ![body.challenge].acceptedLate =
                                    @ \/ now > challenges[body.challenge].expiry]
       ELSE challenges

\* what a step that had the verifier answer `body` observed
Verified(who, body, verdict) ==
    [Ended(who, verdict) EXCEPT !.nonce = body.challenge,
                                !.consumed = challenges[body.challenge].consumed,
                                !.late = now > challenges[body.challenge].expiry]

(***************************************************************************)
(* Publishing: handleBiometricPublish calling                              *)
(* BiometricManager.signWriteProposal.                                     *)
(***************************************************************************)
\* the query of the challenge request, as signWriteProposal builds the URL
ChallengeRequest(path, content, tier) == [path |-> path, content |-> content]

\* what the authenticator signs: the challenge bytes, with the allowed credential
Assertion(credentialId, nonce) == [credentialId |-> credentialId, nonce |-> nonce]

\* a body that carries the first challenge ever received instead of the
\* challenge of the run
ProposalBodyStaleNonce(p, assertion) ==
    [proposalId |-> p.proposalId, walletAddress |-> p.wallet,
     credentialId |-> p.cred, signature |-> assertion,
     publicKey |-> ArrayBufferToBase64(ExtractPublicKeyFromAssertion),
     challenge |-> 1, path |-> p.path, content |-> p.content,
     tier |-> p.tier]

\* the JSON body of the proposal POST
ProposalBody(p, assertion) ==
    [proposalId |-> p.proposalId, walletAddress |-> p.wallet,
     credentialId |-> p.cred, signature |-> assertion,
     publicKey |-> ArrayBufferToBase64(ExtractPublicKeyFromAssertion),
     challenge |-> p.nonce, path |-> p.path, content |-> p.content,
     tier |-> p.tier]

\* The handler ends.  On failure the catch block re-enables the button; on
\* success a 3000 ms timer does.
PubEnd(o) ==
    /\ pub' = IdlePub
    /\ last' = o
    /\ IF o.outcome = "Signed"
          THEN pubTimer' = TRUE /\ UNCHANGED pubBtnDisabled
          ELSE pubBtnDisabled' = FALSE /\ UNCHANGED pubTimer

\* the handler goes on to its next await
PubStep(p, o) ==
    /\ pub' = p
    /\ last' = o
    /\ UNCHANGED <<pubBtnDisabled, pubTimer>>

\* click on #publish-biometric-btn: the button is disabled and the form is
\* read.  With an empty field publisher throws into its catch block, authui
\* returns (the button stays disabled).  A click while an earlier publish
\* run is still in flight is not modelled.
PubClick ==
    /\ page \in PublisherPages
    /\ ~pubBtnDisabled
    /\ pub.pc = "idle"
    /\ \E p \in FormPaths, c \in FormContents, t \in Tiers :
          IF p = "" \/ c = ""
             THEN /\ pub' = IdlePub
                  /\ last' = Ended("pub", "Validation")
                  /\ pubBtnDisabled' = (page = "authui")
             ELSE /\ pub' = [IdlePub EXCEPT !.pc = "avail", !.path = p, !.content = c,
                                            !.tier = t, !.log = <<"click">>]
                  /\ last' = Quiet
                  /\ pubBtnDisabled' = TRUE
    /\ UNCHANGED <<sideVars, derived, session, page, storeVars, now, loads, regBtnDisabled, regTimer,
                   pubTimer, statusPending, reg, setup, prompts, nextCred,
                   challenges, wire>>

\* a variant of the step after isAvailable() that calls
\* navigator.credentials.get without having requested a challenge
PubAvailThenPrompt ==
    /\ pub.pc = "avail"
    /\ PubStep([pub EXCEPT !.pc = "prompt"], Quiet)
    /\ prompts' = prompts \cup {"pub"}
    /\ UNCHANGED <<sideVars, derived, session, page, storeVars, now, loads, regBtnDisabled, regTimer,
                   statusPending, reg, setup, nextCred, challenges, wire>>

\* signWriteProposal: isAvailable() settles
PubAvail ==
    /\ pub.pc = "avail"
    /\ \E supported \in BOOLEAN, answer \in AvailabilityAnswers :
          IF IsAvailable(supported, answer)
             THEN PubStep([pub EXCEPT !.pc = "wallet"],
                          [Quiet EXCEPT !.avail = Availability(supported, answer)])
             ELSE PubEnd([Ended("pub", "NotAvailable") EXCEPT
                            !.avail = Availability(supported, answer)])
    /\ UNCHANGED <<sideVars, derived, session, page, storeVars, now, loads, regBtnDisabled, regTimer,
                   statusPending, reg, setup, prompts, nextCred, challenges, wire>>

\* _getCurrentWalletAddress settles; the stored credential id of that wallet
\* is read and the challenge is requested
PubWallet ==
    /\ pub.pc = "wallet"
    /\ \E w \in {session, "error"} :
          IF w \notin Wallets
             THEN PubEnd(Ended("pub", IF w = NoWallet THEN "NotAuthenticated"
                                                      ELSE "WalletLookupFailed"))
             ELSE IF GetStoredCredentialId(localStorage, w) = Null
                     THEN PubEnd(Ended("pub", "NoPasskey"))
                     ELSE PubStep([pub EXCEPT
                                     !.pc = "challenge", !.wallet = w,
                                     !.cred = GetStoredCredentialId(localStorage, w),
                                     !.request = ChallengeRequest(pub.path, pub.content,
                                                                  pub.tier),
                                     !.log = Append(@, "challengeRequest")],
                                  Quiet)
    /\ UNCHANGED <<sideVars, derived, session, page, storeVars, now, loads, regBtnDisabled, regTimer,
                   statusPending, reg, setup, prompts, nextCred, challenges, wire>>

\* the challenge service answers.  With the challenge in hand the request
\* options are built and navigator.credentials.get is called (the prompt).
PubChallengeResp ==
    /\ pub.pc = "challenge"
    /\ \E answered \in BOOLEAN :
          IF answered
             THEN /\ Len(challenges) < MaxChallenges
                  /\ LET ch == IssueChallenge(pub.request)
                     IN  /\ challenges' = Append(challenges, ch)
                         /\ PubStep([pub EXCEPT !.pc = "prompt", !.nonce = ch.nonce,
                                                !.proposalId = ch.proposalId,
                                                !.log = Append(Append(@, "challenge"),
                                                               "getPrompt")],
                                    Quiet)
                  /\ prompts' = prompts \cup {"pub"}
             ELSE /\ PubEnd(Ended("pub", "ChallengeFailed"))
                  /\ UNCHANGED <<challenges, prompts>>
    /\ UNCHANGED <<sideVars, derived, session, page, storeVars, now, loads, regBtnDisabled, regTimer,
                   statusPending, reg, setup, nextCred, wire>>

\* navigator.credentials.get settles; with the assertion the proposal is POSTed
PubPromptSettle ==
    /\ pub.pc = "prompt"
    /\ prompts' = prompts \ {"pub"}
    /\ \E answer \in {"ok", "NotAllowedError", "error"} :
          CASE answer = "ok" ->
                 /\ PubStep([pub EXCEPT !.pc = "submit",
                                        !.log = Append(Append(@, "assertion"), "submit")],
                            [Quiet EXCEPT !.auth = answer])
                 /\ wire' = wire \cup {ProposalBody(pub, Assertion(pub.cred, pub.nonce))}
            [] OTHER ->
                 /\ PubEnd(AuthEnded("pub", PromptError(answer), answer))
                 /\ UNCHANGED wire
    /\ UNCHANGED <<sideVars, derived, session, page, storeVars, now, loads, regBtnDisabled, regTimer,
                   statusPending, reg, setup, nextCred, challenges>>

\* the verifier answers the proposal POST (or the transport fails)
PubSubmitResp ==
    /\ pub.pc = "submit"
    /\ \E delivered \in BOOLEAN, signatureVerifies \in BOOLEAN :
          IF delivered
             THEN LET body == ProposalBody(pub, Assertion(pub.cred, pub.nonce))
                      verdict == Verify(body, signatureVerifies)
                  IN  /\ challenges' = Consume(body, verdict)
                      /\ PubEnd(Verified("pub", body, verdict))
             ELSE /\ PubEnd(Ended("pub", "SubmissionFailed"))
                  /\ UNCHANGED challenges
    /\ UNCHANGED <<sideVars, derived, session, page, storeVars, now, loads, regBtnDisabled, regTimer,
                   statusPending, reg, setup, prompts, nextCred, wire>>

\* the 3000 ms timer after a successful publish
PubTimerFire ==
    /\ pubTimer
    /\ pubTimer' = FALSE
    /\ pubBtnDisabled' = FALSE
    /\ last' = Quiet
    /\ UNCHANGED <<sideVars, derived, session, page, storeVars, now, loads, regBtnDisabled, regTimer,
                   statusPending, reg, pub, setup, prompts, nextCred,
                   challenges, wire>>

\* a proposal POST that was sent before reaches the verifier (again, or ahead
\* of the original); its answer goes to whoever sent it, not to the page
Resubmit ==
    /\ \E body \in wire, signatureVerifies \in BOOLEAN :
          LET verdict == Verify(body, signatureVerifies)
          IN  /\ last' = Quiet
              /\ challenges' = Consume(body, verdict)
    /\ UNCHANGED <<sideVars, derived, session, page, storeVars, now, loads, uiVars, reg, pub, setup,
                   prompts, nextCred, wire>>

(***************************************************************************)
(* Wallet setup on the login page: setupBiometricWallet, in the variant    *)
(* that derives a secp256k1 wallet ("derived") and in the earlier variant  *)
(* that takes a truncated hash as the address ("legacy").                  *)
(***************************************************************************)
\* a variant of step 3 that keeps the derived private key in localStorage
SetupStoreLocalWithPrivateKey(ls, variant, credNo, k) ==
    [ls EXCEPT !["blockchain_aem_wallet_address"] = deriveEthereumWallet(k).privateKey]

\* step 3 of setupBiometricWallet: what goes to localStorage
SetupStoreLocal(ls, variant, credNo, k) ==
    IF variant = "derived"
       THEN [ls EXCEPT
               !["blockchain_aem_wallet_address"] = deriveEthereumWallet(k).address,
               !["blockchain_aem_credential_id"] = CredentialId(credNo),
               !["blockchain_aem_p256_pubkey"] = ArrayBufferToBase64(k),
               !["blockchain_aem_secp256k1_pubkey"] = deriveEthereumWallet(k).publicKey]
       ELSE [ls EXCEPT
               !["blockchain_aem_biometric_wallet"] = deriveEthereumAddress(k),
               !["blockchain_aem_biometric_credential_id"] = CredentialId(credNo),
               !["blockchain_aem_biometric_pubkey"] = ArrayBufferToBase64(k)]

\* step 3, continued: what goes to sessionStorage
SetupStoreSession(ss, variant, k) ==
    IF variant = "derived"
       THEN [ss EXCEPT !["blockchain_aem_private_key"] = deriveEthereumWallet(k).privateKey]
       ELSE ss

SetupEnd(o) ==
    /\ setup' = IdleSetup
    /\ last' = o

\* createBiometricWallet up to navigator.credentials.create: WebAuthn must
\* exist and, for the derived variant, ethers.js must be loaded
SetupStart ==
    /\ page = "login"
    /\ setup.pc = "idle"
    /\ \E variant \in {"derived", "legacy"}, supported \in BOOLEAN, ethersLoaded \in BOOLEAN :
          IF ~supported
             THEN SetupEnd(Ended("setup", "NotSupported")) /\ UNCHANGED prompts
             ELSE IF variant = "derived" /\ ~ethersLoaded
                     THEN SetupEnd(Ended("setup", "MissingEthers")) /\ UNCHANGED prompts
                     ELSE /\ setup' = [IdleSetup EXCEPT !.pc = "prompt",
                                                        !.variant = variant,
                                                        !.log = <<"createPrompt">>]
                          /\ last' = Quiet
                          /\ prompts' = prompts \cup {"setup"}
    /\ UNCHANGED <<sideVars, derived, session, page, storeVars, now, loads, uiVars, reg, pub, nextCred,
                   challenges, wire>>

\* navigator.credentials.create settles; the wallet is derived from the
\* public key and registerBiometricWallet POSTs it
SetupPromptSettle ==
    /\ setup.pc = "prompt"
    /\ prompts' = prompts \ {"setup"}
    /\ \E answer \in {"ok", "NotAllowedError", "error"} :
          CASE answer = "ok" ->
                 /\ nextCred < MaxCreds
                 /\ nextCred' = nextCred + 1
                 /\ setup' = [setup EXCEPT !.pc = "fetch", !.cred = nextCred + 1,
                                           !.key = nextCred + 1,
                                           !.log = Append(Append(@, "credential"), "post")]
                 /\ last' = [Quiet EXCEPT !.auth = answer]
            [] answer = "NotAllowedError" ->
                 /\ SetupEnd(AuthEnded("setup", "UserCancelled", answer))
                 /\ UNCHANGED nextCred
            [] OTHER ->
                 /\ SetupEnd(AuthEnded("setup", "BiometricFailed", answer))
                 /\ UNCHANGED nextCred
    /\ UNCHANGED <<sideVars, derived, session, page, storeVars, now, loads, uiVars, reg, pub, challenges, wire>>

\* the registry answers; only then step 3 stores the linkage
SetupFetchDone ==
    /\ setup.pc = "fetch"
    /\ \E answer \in {"201", "DuplicateCredential", "InvalidProof",
                      "RegistryUnavailable"} :
          IF ResponseOk(answer)
             THEN /\ localStorage' = SetupStoreLocal(localStorage, setup.variant,
                                                     setup.cred, setup.key)
                  /\ sessionStorage' = SetupStoreSession(sessionStorage, setup.variant,
                                                         setup.key)
                  /\ SetupEnd(RegistryEnded("setup", "ok", answer))
             ELSE /\ UNCHANGED storeVars
                  /\ SetupEnd(RegistryEnded("setup", answer, answer))
    /\ UNCHANGED <<sideVars, derived, session, page, now, loads, uiVars, reg, pub, prompts, nextCred,
                   challenges, wire>>

(***************************************************************************)
(* The page and its environment.                                           *)
(***************************************************************************)
\* checkBiometricStatus, run once after the publisher page has loaded: the
\* publish button is enabled when a credential id is stored for the session
\* wallet; authui disables it when none is stored
CheckBiometricStatus ==
    /\ statusPending
    /\ statusPending' = FALSE
    /\ last' = Quiet
    /\ LET w == session IN
          pubBtnDisabled' =
             IF w = NoWallet THEN pubBtnDisabled
             ELSE IF GetStoredCredentialId(localStorage, w) # Null THEN FALSE
             ELSE IF page = "authui" THEN TRUE
             ELSE pubBtnDisabled
    /\ UNCHANGED <<sideVars, derived, session, page, storeVars, now, loads, regBtnDisabled, regTimer,
                   pubTimer, reg, pub, setup, prompts, nextCred, challenges, wire>>

\* time passes
Tick ==
    /\ now < MaxTime
    /\ now' = now + 1
    /\ last' = Quiet
    /\ UNCHANGED <<sideVars, derived, session, page, storeVars, loads, uiVars, reg, pub, setup, prompts,
                   nextCred, challenges, wire>>

\* A page is loaded, in this tab or, after closing it, in a new one.  Every
\* handler and timer of the old page is gone and the new page starts from
\* its initial controls.  A new tab starts with an empty sessionStorage;
\* localStorage and the server keep their state.
LoadPage ==
    /\ loads < MaxLoads
    /\ loads' = loads + 1
    /\ \E pg \in Pages, w \in Wallets \cup {NoWallet}, newTab \in BOOLEAN :
          /\ page' = pg
          /\ session' = w
          /\ sessionStorage' = IF newTab THEN [k \in SessionKeys |-> Null]
                                         ELSE sessionStorage
          /\ pubBtnDisabled' = InitialPubBtnDisabled(pg)
          /\ statusPending' = (pg \in PublisherPages)
    /\ regBtnDisabled' = FALSE
    /\ regTimer' = FALSE
    /\ pubTimer' = FALSE
    /\ reg' = IdleRun
    /\ pub' = IdlePub
    /\ setup' = IdleSetup
    /\ prompts' = {}
    /\ last' = Quiet
    /\ UNCHANGED <<sideVars, derived, localStorage, now, nextCred, challenges, wire>>

\* The site: every handler of the login page and of the publisher pages,
\* page loads and new tabs, the registry, the challenge service and the
\* verifier answering at once.
Next ==
    \/ SetupStart \/ SetupPromptSettle \/ SetupFetchDone
    \/ RegClick \/ RegWallet \/ RegAvail \/ RegPromptSettle \/ RegWalletSign
    \/ RegFetchDone \/ RegTimerFire
    \/ PubClick \/ PubAvail \/ PubWallet \/ PubChallengeResp \/ PubPromptSettle
    \/ PubSubmitResp \/ PubTimerFire
    \/ CheckBiometricStatus \/ LoadPage

Spec == Init /\ [][Next]_vars

\* One life of a publisher page, with the clock running and proposal POSTs
\* reaching the verifier late, twice or out of order.
InitPublisher == Init /\ page \in PublisherPages

NextPublisher ==
    \/ RegClick \/ RegWallet \/ RegAvail \/ RegPromptSettle \/ RegWalletSign
    \/ RegFetchDone \/ RegTimerFire
    \/ PubClick \/ PubAvail \/ PubWallet \/ PubChallengeResp \/ PubPromptSettle
    \/ PubSubmitResp \/ PubTimerFire \/ Resubmit
    \/ CheckBiometricStatus \/ Tick

SpecPublisher == InitPublisher /\ [][NextPublisher]_vars

(***************************************************************************)
(* The derivation functions, called directly.                              *)
(***************************************************************************)
\* a derivation that mixes in a counter of the page
DerivedIdentitySalted(impl, k) ==
    IF impl = "secp256k1"
       THEN [impl |-> impl,
             address |-> deriveEthereumWallet(k + nextCred).address,
             privateKey |-> deriveEthereumWallet(k + nextCred).privateKey,
             publicKey |-> deriveEthereumWallet(k + nextCred).publicKey]
       ELSE [impl |-> impl, address |-> deriveEthereumAddress(k + nextCred),
             privateKey |-> Null, publicKey |-> Null]

\* What a derivation returns for the public-key bytes k: deriveEthereumWallet
\* ("secp256k1") returns address, private key and public key of the wallet
\* ethers builds from SHA-256(k); deriveEthereumAddress of the earlier
\* variant ("truncated") returns an address only.  Neither looks at the
\* bytes it is given before hashing them, and ethers 5.7.2, the library the
\* code names, keeps the hash as the private key whatever its value.
DerivedIdentity(impl, k) ==
    IF impl = "secp256k1"
       THEN [impl |-> impl,
             address |-> deriveEthereumWallet(k).address,
             privateKey |-> deriveEthereumWallet(k).privateKey,
             publicKey |-> deriveEthereumWallet(k).publicKey]
       ELSE [impl |-> impl, address |-> deriveEthereumAddress(k),
             privateKey |-> Null, publicKey |-> Null]

Implementations == {"secp256k1", "truncated"}

\* a call of deriveEthereumWallet or deriveEthereumAddress; both only
\* compute and log
Derive ==
    /\ page = "login"
    /\ \E impl \in Implementations, k \in KeyInputs :
          derived' = [derived EXCEPT ![k] = @ \cup {DerivedIdentity(impl, k)}]
    /\ last' = Quiet
    /\ UNCHANGED <<sideVars, session, page, storeVars, now, loads, uiVars, reg, pub,
                   setup, prompts, nextCred, challenges, wire>>

\* the login page with wallet setups and derivations in any order
InitDerive == Init /\ page = "login"

NextDerive ==
    \/ SetupStart \/ SetupPromptSettle \/ SetupFetchDone \/ Derive

SpecDerive == InitDerive /\ [][NextDerive]_vars

(***************************************************************************)
(* Sign-in on the login page: checkBiometricAvailability,                  *)
(* handleBiometricSignIn and handleMetaMaskSignIn.  The login endpoint     *)
(* /j_security_check is not part of the package; it answers as it likes.   *)
(***************************************************************************)
MaxLoginChallenges == 2

\* BiometricManager.isAvailable() called for its own sake, as the script does
\* when it is loaded: the result is logged
IsAvailableCall ==
    /\ page = "login"
    /\ \E supported \in BOOLEAN, answer \in AvailabilityAnswers :
          probe' = [by |-> "load", supported |-> supported, answer |-> answer,
                    result |-> IsAvailable(supported, answer)]
    /\ last' = Quiet
    /\ UNCHANGED <<si, mm, siBtnDisabled, mmBtnDisabled, availPending, redirects,
                   loginChallenges, page, prompts, notSignIn>>

\* checkBiometricAvailability, run once by init: without an authenticator the
\* sign-in button is disabled
CheckBiometricAvailability ==
    /\ page = "login"
    /\ availPending
    /\ availPending' = FALSE
    /\ \E supported \in BOOLEAN, answer \in AvailabilityAnswers :
          /\ probe' = [by |-> "init", supported |-> supported, answer |-> answer,
                       result |-> IsAvailable(supported, answer)]
          /\ siBtnDisabled' = IF IsAvailable(supported, answer)
                                 THEN siBtnDisabled ELSE TRUE
    /\ last' = Quiet
    /\ UNCHANGED <<si, mm, mmBtnDisabled, redirects, loginChallenges, page,
                   prompts, notSignIn>>

\* a login endpoint whose every answer counts as acceptance
LoginOkUnlessError(answer) == answer # "error"
\* loginResponse.ok
LoginOk(answer) == answer = "200"

\* the assertion navigator.credentials.get returns for a challenge
SignInAssertion(credentialId, challenge) ==
    [cred |-> credentialId, challenge |-> challenge]
\* the body of the POST to /j_security_check
SignInBody(run, assertion) ==
    [walletAddress |-> run.wallet, credentialId |-> run.cred,
     assertion |-> assertion, challenge |-> run.challenge]

\* the catch block: the run is over, the button is as it was before the click
SiEnd(obs) ==
    /\ si' = IdleSi
    /\ siBtnDisabled' = FALSE
    /\ last' = obs
SiStep(run, obs) ==
    /\ si' = run
    /\ last' = obs
    /\ UNCHANGED siBtnDisabled

\* click on "Sign In with Biometrics"
SiClick ==
    /\ page = "login"
    /\ ~siBtnDisabled
    /\ si' = [IdleSi EXCEPT !.pc = "wallet", !.issued = loginChallenges,
                            !.log = <<"click">>]
    /\ siBtnDisabled' = TRUE
    /\ last' = Quiet
    /\ UNCHANGED <<mm, mmBtnDisabled, availPending, redirects, loginChallenges,
                   probe, page, prompts, notSignIn>>

\* localStorage.getItem of the sign-in script: a key that was never written
\* reads null
GetItem(ls, key) == IF key \in DOMAIN ls THEN ls[key] ELSE Null

\* the key handleBiometricSignIn reads the credential id from; a stored
\* address is a derived one, a MetaMask address is one of Wallets
SignInCredentialKey(walletAddress) ==
    IF walletAddress \in Wallets THEN CredentialKey(walletAddress)
                                 ELSE "biometric_credential_derived"

\* getWalletAddress resolves: the stored wallet if there is one, otherwise
\* the account of MetaMask; then the credential id of that wallet is read and
\* the sign-in challenge requested
SiWallet ==
    /\ si.pc = "wallet"
    /\ \E w \in {session, "error"} :
          LET storedWallet == GetItem(localStorage, SignInWalletKey)
              walletAddress == IF storedWallet # Null THEN storedWallet
                               ELSE IF w = "error" THEN NoWallet ELSE w
              credentialId == GetItem(localStorage, SignInCredentialKey(walletAddress))
          IN
          IF storedWallet = Null /\ walletAddress = NoWallet
             THEN SiEnd(Ended("signin", "NoWallet"))
             ELSE IF credentialId = Null
                     THEN SiEnd(Ended("signin", "NotRegistered"))
                     ELSE SiStep([si EXCEPT
                                    !.pc = "challenge",
                                    !.wallet = walletAddress,
                                    !.cred = credentialId,
                                    !.log = si.log \o <<"wallet", "credential",
                                                        "challengeRequest">>],
                                 Quiet)
    /\ UNCHANGED <<mm, mmBtnDisabled, availPending, redirects, loginChallenges,
                   probe, page, prompts, notSignIn>>

\* the login endpoint answers the challenge request; with the challenge the
\* hardware prompt is shown
SiChallengeResp ==
    /\ si.pc = "challenge"
    /\ \E ok \in BOOLEAN :
          IF ok
             THEN /\ loginChallenges < MaxLoginChallenges
                  /\ loginChallenges' = loginChallenges + 1
                  /\ prompts' = prompts \cup {"signin"}
                  /\ SiStep([si EXCEPT !.pc = "prompt",
                                       !.challenge = loginChallenges + 1,
                                       !.log = si.log \o <<"challenge", "prompt">>],
                            Quiet)
             ELSE /\ SiEnd(Ended("signin", "ChallengeFailed"))
                  /\ UNCHANGED <<loginChallenges, prompts>>
    /\ UNCHANGED <<mm, mmBtnDisabled, availPending, redirects, probe, page,
                   notSignIn>>

\* navigator.credentials.get settles; the assertion is POSTed
SiPromptSettle ==
    /\ si.pc = "prompt"
    /\ prompts' = prompts \ {"signin"}
    /\ \E answer \in {"ok", "NotAllowedError", "error"} :
          IF answer = "ok"
             THEN SiStep([si EXCEPT
                            !.pc = "submit",
                            !.body = SignInBody(si, SignInAssertion(si.cred,
                                                                    si.challenge)),
                            !.log = si.log \o <<"assertion", "submit">>],
                         [Quiet EXCEPT !.auth = answer])
             ELSE SiEnd(AuthEnded("signin", PromptError(answer), answer))
    /\ UNCHANGED <<mm, mmBtnDisabled, availPending, redirects, loginChallenges,
                   probe, page, notSignIn>>

\* the login endpoint answers the sign-in (or the transport fails); on
\* acceptance the redirect is set for 1500 ms later and the button stays
\* disabled
SiLoginResp ==
    /\ si.pc = "submit"
    /\ \E answer \in {"200", "401", "error"} :
          IF LoginOk(answer)
             THEN /\ redirects' = redirects \cup {"signin"}
                  /\ SiStep(IdleSi, RegistryEnded("signin", "ok", answer))
             ELSE /\ UNCHANGED redirects
                  /\ SiEnd(RegistryEnded("signin", "AuthenticationFailed", answer))
    /\ UNCHANGED <<mm, mmBtnDisabled, availPending, loginChallenges, probe, page,
                   prompts, notSignIn>>

\* the catch block of handleMetaMaskSignIn
MmEnd(outcome) ==
    /\ mm' = IdleMm
    /\ mmBtnDisabled' = FALSE
    /\ last' = Ended("metamask", outcome)

\* click on "Sign In with MetaMask": eth_requestAccounts is requested, or
\* there is no MetaMask
MmClick ==
    /\ page = "login"
    /\ ~mmBtnDisabled
    /\ \E hasEthereum \in BOOLEAN :
          IF hasEthereum
             THEN /\ mm' = [IdleMm EXCEPT !.pc = "accounts"]
                  /\ mmBtnDisabled' = TRUE
                  /\ last' = Quiet
             ELSE MmEnd("NoMetaMask")
    /\ UNCHANGED <<si, siBtnDisabled, availPending, redirects, loginChallenges,
                   probe, page, prompts, notSignIn>>

\* eth_requestAccounts settles; personal_sign is requested
MmAccounts ==
    /\ mm.pc = "accounts"
    /\ \E w \in {session, "error"} :
          IF w \in Wallets
             THEN /\ mm' = [mm EXCEPT !.pc = "sign", !.wallet = w]
                  /\ last' = Quiet
                  /\ UNCHANGED mmBtnDisabled
             ELSE MmEnd(IF w = "error" THEN "Rejected" ELSE "NoAccount")
    /\ UNCHANGED <<si, siBtnDisabled, availPending, redirects, loginChallenges,
                   probe, page, prompts, notSignIn>>

\* personal_sign settles; the signed message is POSTed
MmSign ==
    /\ mm.pc = "sign"
    /\ \E signed \in BOOLEAN :
          IF signed
             THEN /\ mm' = [mm EXCEPT !.pc = "submit"]
                  /\ last' = Quiet
                  /\ UNCHANGED mmBtnDisabled
             ELSE MmEnd("Rejected")
    /\ UNCHANGED <<si, siBtnDisabled, availPending, redirects, loginChallenges,
                   probe, page, prompts, notSignIn>>

\* the login endpoint answers the MetaMask sign-in
MmLoginResp ==
    /\ mm.pc = "submit"
    /\ \E answer \in {"200", "401", "error"} :
          IF LoginOk(answer)
             THEN /\ redirects' = redirects \cup {"metamask"}
                  /\ mm' = IdleMm
                  /\ last' = RegistryEnded("metamask", "ok", answer)
                  /\ UNCHANGED mmBtnDisabled
             ELSE /\ UNCHANGED redirects
                  /\ MmEnd("AuthenticationFailed")
    /\ UNCHANGED <<si, siBtnDisabled, availPending, loginChallenges, probe, page,
                   prompts, notSignIn>>

\* a redirect timer fires: window.location.href is set and the page, with
\* every run and timer on it, is gone
Redirect ==
    /\ page = "login"
    /\ \E r \in redirects :
          last' = Ended(r, "redirect")
    /\ page' = "dashboard"
    /\ redirects' = {}
    /\ si' = IdleSi
    /\ mm' = IdleMm
    /\ prompts' = {}
    /\ UNCHANGED <<siBtnDisabled, mmBtnDisabled, availPending, loginChallenges,
                   probe, notSignIn>>

\* the credentials a browser profile can hold when the login page is opened
RegisteredStores ==
    {[k \in LocalKeys |-> Null]}
       \cup {StoreCredentialId([k \in LocalKeys |-> Null], w, CredentialId(1)) :
               w \in Wallets}

\* the login page, opened in a profile that may have registered before
InitSignIn ==
    /\ session \in Wallets \cup {NoWallet}
    /\ page = "login"
    /\ localStorage \in RegisteredStores
    /\ sessionStorage = [k \in SessionKeys |-> Null]
    /\ now = 0
    /\ loads = 0
    /\ regBtnDisabled = FALSE
    /\ pubBtnDisabled = FALSE
    /\ regTimer = FALSE
    /\ pubTimer = FALSE
    /\ statusPending = FALSE
    /\ reg = IdleRun
    /\ pub = IdlePub
    /\ setup = IdleSetup
    /\ prompts = {}
    /\ nextCred = IF localStorage = [k \in LocalKeys |-> Null] THEN 0 ELSE 1
    /\ challenges = <<>>
    /\ wire = {}
    /\ last = Quiet
    /\ derived = [k \in KeyInputs |-> {}]
    /\ SignInInit
    /\ availPending = TRUE
    /\ WsInit
    /\ SseInit
    /\ PayInit

NextSignIn ==
    \/ IsAvailableCall \/ CheckBiometricAvailability
    \/ SiClick \/ SiWallet \/ SiChallengeResp \/ SiPromptSettle \/ SiLoginResp
    \/ MmClick \/ MmAccounts \/ MmSign \/ MmLoginResp
    \/ Redirect

SpecSignIn == InitSignIn /\ [][NextSignIn]_vars

\* the login page with its wallet setup and its sign-in
NextLogin ==
    \/ SetupStart \/ SetupPromptSettle \/ SetupFetchDone
    \/ NextSignIn

SpecLogin == InitSignIn /\ [][NextLogin]_vars

(***************************************************************************)
(* BlockchainWebSocketManager.  The application calls connect() and        *)
(* disconnect(); the sockets open, fail, close and deliver messages; the   *)
(* reconnect timers fire.                                                  *)
(***************************************************************************)
\* a limit that lets one more attempt through
ReconnectAllowedOnceMore(attempts) == attempts <= maxReconnectAttempts
\* scheduleReconnect gives up when reconnectAttempts >= maxReconnectAttempts
ReconnectAllowed(attempts) == attempts < maxReconnectAttempts

\* scheduleReconnect with reconnectAttempts = a and t timers pending: the
\* attempt is counted and a timer set, or 'reconnect-failed' is emitted
ScheduleReconnect(a, t, event) ==
    IF ReconnectAllowed(a)
       THEN [attempts |-> a + 1, timers |-> t + 1, event |-> event]
       ELSE [attempts |-> a, timers |-> t, event |-> "reconnect-failed"]

\* the socket slot new WebSocket takes
FreeSlot == CHOOSE s \in Slots : sockets[s] = "none" /\ \A x \in Slots :
                                      sockets[x] = "none" => s <= x

\* connect(), with t timers pending: nothing when connected or connecting;
\* otherwise a new socket, or scheduleReconnect when the constructor throws
WsConnect(t) ==
    IF isConnecting \/ isConnected
       THEN /\ reconnectTimers' = t
            /\ last' = Quiet
            /\ UNCHANGED <<reconnectAttempts, isConnecting, isConnected, ws, sockets>>
       ELSE \E throws \in BOOLEAN :
               IF throws
                  THEN LET r == ScheduleReconnect(reconnectAttempts, t, "scheduled") IN
                       /\ r.timers <= MaxReconnectTimers
                       /\ reconnectAttempts' = r.attempts
                       /\ reconnectTimers' = r.timers
                       /\ isConnecting' = FALSE
                       /\ last' = Ended("ws", r.event)
                       /\ UNCHANGED <<isConnected, ws, sockets>>
                  ELSE /\ \E s \in Slots : sockets[s] = "none"
                       /\ sockets' = [sockets EXCEPT ![FreeSlot] = "connecting"]
                       /\ ws' = FreeSlot
                       /\ isConnecting' = TRUE
                       /\ reconnectTimers' = t
                       /\ last' = Quiet
                       /\ UNCHANGED <<reconnectAttempts, isConnected>>

\* the application calls connect()
WsAppConnect ==
    /\ page = "home"
    /\ wsStopped' = FALSE
    /\ WsConnect(reconnectTimers)
    /\ UNCHANGED <<pingInterval, wsLive, notWs>>

\* a reconnect timer fires: this.connect()
WsTimerFire ==
    /\ reconnectTimers > 0
    /\ WsConnect(reconnectTimers - 1)
    /\ UNCHANGED <<pingInterval, wsLive, wsStopped, notWs>>

\* onopen of socket s
WsOpen ==
    /\ \E s \in Slots :
          /\ sockets[s] = "connecting"
          /\ sockets' = [sockets EXCEPT ![s] = "open"]
    /\ isConnected' = TRUE
    /\ isConnecting' = FALSE
    /\ reconnectAttempts' = 0
    /\ pingInterval' = TRUE
    /\ wsLive' = TRUE
    /\ last' = Ended("ws", "connected")
    /\ UNCHANGED <<ws, reconnectTimers, wsStopped, notWs>>

\* onmessage of an open socket: the message is emitted by its type
WsMessage ==
    /\ \E s \in Slots : sockets[s] = "open"
    /\ \E type \in {"welcome", "epoch"} : last' = Ended("ws", type)
    /\ UNCHANGED <<wsVars, notWs>>

\* onerror of socket s; its close event follows
WsError ==
    /\ \E s \in Slots :
          /\ sockets[s] \in {"connecting", "open", "closing"}
          /\ sockets' = [sockets EXCEPT ![s] = "failed"]
    /\ isConnected' = FALSE
    /\ isConnecting' = FALSE
    /\ wsLive' = FALSE
    /\ last' = Ended("ws", "error")
    /\ UNCHANGED <<reconnectAttempts, pingInterval, ws, reconnectTimers, wsStopped,
                   notWs>>

\* onclose of socket s, closed by the server, by the network or by
\* disconnect(): 'disconnected' is emitted and scheduleReconnect called
WsClose ==
    /\ \E s \in Slots :
          /\ sockets[s] # "none"
          /\ sockets' = [sockets EXCEPT ![s] = "none"]
          /\ ws' = IF ws = s THEN ClosedSocket ELSE ws
    /\ isConnected' = FALSE
    /\ isConnecting' = FALSE
    /\ pingInterval' = FALSE
    /\ wsLive' = FALSE
    /\ LET r == ScheduleReconnect(reconnectAttempts, reconnectTimers, "disconnected") IN
          /\ r.timers <= MaxReconnectTimers
          /\ reconnectAttempts' = r.attempts
          /\ reconnectTimers' = r.timers
          /\ last' = Ended("ws", r.event)
    /\ UNCHANGED <<wsStopped, notWs>>

\* the application calls disconnect()
WsDisconnect ==
    /\ page = "home"
    /\ wsStopped' = TRUE
    /\ reconnectAttempts' = maxReconnectAttempts
    /\ pingInterval' = FALSE
    /\ sockets' = [s \in Slots |->
                     IF s = ws /\ sockets[s] \in {"connecting", "open"}
                        THEN "closing" ELSE sockets[s]]
    /\ ws' = NoSocket
    /\ isConnected' = FALSE
    /\ isConnecting' = FALSE
    /\ wsLive' = FALSE
    /\ last' = Quiet
    /\ UNCHANGED <<reconnectTimers, notWs>>

\* the home page with its WebSocket manager
InitWs == CoreInit("home") /\ SideInit

NextWs ==
    \/ WsAppConnect \/ WsTimerFire \/ WsOpen \/ WsMessage \/ WsError \/ WsClose
    \/ WsDisconnect

SpecWs == InitWs /\ [][NextWs]_vars

(***************************************************************************)
(* BlockchainSSEManager.                                                   *)
(***************************************************************************)
Min(a, b) == IF a <= b THEN a ELSE b

\* a backoff without the cap
NextReconnectDelayUncapped(d) == d * 2
\* Math.min(this.reconnectDelay * 2, this.maxReconnectDelay)
NextReconnectDelay(d) == Min(d * 2, maxReconnectDelay)

SseTimerCount == sseTimers[1000] + sseTimers[2000] + sseTimers[4000]
                    + sseTimers[8000] + sseTimers[16000] + sseTimers[30000]

\* scheduleReconnect: a timer with the current delay, then the delay grows
SseScheduleReconnect(timers) ==
    /\ sseTimers' = [timers EXCEPT ![reconnectDelay] = @ + 1]
    /\ reconnectDelay' = NextReconnectDelay(reconnectDelay)

\* connect(), with the timers pending
SseConnect(timers) ==
    IF eventSource # "null" \/ sseConnecting
       THEN /\ sseTimers' = timers
            /\ last' = Quiet
            /\ UNCHANGED <<eventSource, sseConnecting, reconnectDelay>>
       ELSE \E throws \in BOOLEAN :
               IF throws
                  THEN /\ SseTimerCount < MaxSseTimers
                       /\ SseScheduleReconnect(timers)
                       /\ sseConnecting' = FALSE
                       /\ last' = Ended("sse", "scheduled")
                       /\ UNCHANGED eventSource
                  ELSE /\ eventSource' = "connecting"
                       /\ sseConnecting' = TRUE
                       /\ sseTimers' = timers
                       /\ last' = Quiet
                       /\ UNCHANGED reconnectDelay

\* the application calls connect()
SseAppConnect ==
    /\ page = "home"
    /\ SseConnect(sseTimers)
    /\ UNCHANGED notSse

\* a reconnect timer fires
SseTimerFire ==
    /\ \E d \in Delays :
          /\ sseTimers[d] > 0
          /\ SseConnect([sseTimers EXCEPT ![d] = @ - 1])
    /\ UNCHANGED notSse

\* onopen
SseOpen ==
    /\ eventSource = "connecting"
    /\ eventSource' = "open"
    /\ reconnectDelay' = InitialReconnectDelay
    /\ sseConnecting' = FALSE
    /\ last' = Ended("sse", "connected")
    /\ UNCHANGED <<sseTimers, notSse>>

\* a typed event or a message arrives and is triggered to the listeners
SseMessage ==
    /\ eventSource = "open"
    /\ \E type \in {"epoch", "content"} : last' = Ended("sse", type)
    /\ UNCHANGED <<sseVars, notSse>>

\* onerror: handleDisconnect closes the source, triggers 'disconnect' and
\* schedules the reconnect
SseError ==
    /\ eventSource \in {"connecting", "open"}
    /\ SseTimerCount < MaxSseTimers
    /\ eventSource' = "null"
    /\ sseConnecting' = FALSE
    /\ SseScheduleReconnect(sseTimers)
    /\ last' = Ended("sse", "disconnect")
    /\ UNCHANGED notSse

\* the application calls disconnect()
SseDisconnect ==
    /\ page = "home"
    /\ eventSource' = "null"
    /\ sseConnecting' = FALSE
    /\ last' = Quiet
    /\ UNCHANGED <<reconnectDelay, sseTimers, notSse>>

\* the home page with its SSE manager
InitSse == CoreInit("home") /\ SideInit

NextSse ==
    \/ SseAppConnect \/ SseTimerFire \/ SseOpen \/ SseMessage \/ SseError
    \/ SseDisconnect

SpecSse == InitSse /\ [][NextSse]_vars

(***************************************************************************)
(* The MetaMask publish pages.  oak-chain-publisher: the wallet manager    *)
(* keeps the connection state and the form handler pays for a proposal     *)
(* and then hands the content to the Oak servlet.  The unified editor:     *)
(* one publish flow for the three modes of the validator.                  *)
(***************************************************************************)
RECURSIVE PendingIn(_)
PendingIn(ks) ==
    IF ks = {} THEN 0
    ELSE LET k == CHOOSE x \in ks : TRUE IN requests[k] + PendingIn(ks \ {k})

\* ethereum.request({ method }) called because of `by`
Request(method, by, calls) ==
    requests' = [requests EXCEPT ![[method |-> method, by |-> by]] = @ + calls]
Settle(k) == requests' = [requests EXCEPT ![k] = @ - 1]

CheckMethodPopup == "eth_requestAccounts"
\* the method checkWalletConnection asks MetaMask for
CheckMethod == "eth_accounts"

UpdateUIConnecting ==
    /\ connectBtnDisabled' = TRUE
    /\ publishBtnDisabled' = TRUE
    /\ UNCHANGED <<userAccount, connectBtnHidden>>

UpdateUIConnected(account) ==
    /\ userAccount' = account
    /\ connectBtnHidden' = TRUE
    /\ publishBtnDisabled' = FALSE
    /\ UNCHANGED connectBtnDisabled

UpdateUIDisconnected ==
    /\ userAccount' = NoAccount
    /\ connectBtnHidden' = FALSE
    /\ connectBtnDisabled' = FALSE
    /\ publishBtnDisabled' = TRUE

HandleAccountsChanged(account) ==
    IF account # NoAccount THEN UpdateUIConnected(account) ELSE UpdateUIDisconnected

formVars == <<selectedTier, publishes, proposalIds, payments, oakWire>>
walletUiVars == <<userAccount, publishBtnDisabled, connectBtnDisabled,
                  connectBtnHidden>>

\* the requests OakChainWallet.init() makes: checkWalletConnection
InitRequests == [NoRequests EXCEPT ![[method |-> CheckMethod, by |-> "init"]] = 1]

\* the connect event of MetaMask, and the tab or the window coming back:
\* checkWalletConnection
OakRecheck(by) ==
    /\ page = "oakpublisher"
    /\ by \in {"connect", "visibilitychange", "focus"}
    /\ PendingIn(RequestKinds) < MaxPending
    /\ Request(CheckMethod, by, 1)
    /\ last' = Quiet
    /\ UNCHANGED <<authorised, walletUiVars, formVars, editorVars, notPay>>

\* the request of checkWalletConnection settles
OakCheckSettled ==
    /\ page = "oakpublisher"
    /\ \E k \in RequestKinds, ok \in BOOLEAN :
          /\ k.by # "click"
          /\ requests[k] > 0
          /\ Settle(k)
          /\ HandleAccountsChanged(IF ok THEN authorised ELSE NoAccount)
          /\ last' = Quiet
    /\ UNCHANGED <<authorised, formVars, editorVars, notPay>>

\* the user clicks Connect MetaMask: connectWallet
OakConnectClick ==
    /\ page = "oakpublisher"
    /\ ~connectBtnHidden
    /\ ~connectBtnDisabled
    /\ PendingIn(RequestKinds) < MaxPending
    /\ UpdateUIConnecting
    /\ Request("eth_requestAccounts", "click", 1)
    /\ last' = Quiet
    /\ UNCHANGED <<authorised, formVars, editorVars, notPay>>

\* the accounts eth_requestAccounts can resolve to; none is a rejection
Approvable == IF authorised # NoAccount THEN {authorised} ELSE Accounts

\* the request of connectWallet settles
OakConnectSettled ==
    /\ page = "oakpublisher"
    /\ \E k \in RequestKinds, a \in Approvable \cup {NoAccount} :
          /\ k.by = "click"
          /\ requests[k] > 0
          /\ Settle(k)
          /\ authorised' = IF a # NoAccount THEN a ELSE authorised
          /\ HandleAccountsChanged(a)
          /\ last' = Quiet
    /\ UNCHANGED <<formVars, editorVars, notPay>>

\* MetaMask: accountsChanged
OakAccountsChanged ==
    /\ page = "oakpublisher"
    /\ \E a \in (Accounts \cup {NoAccount}) \ {authorised} :
          /\ authorised' = a
          /\ HandleAccountsChanged(a)
    /\ last' = Quiet
    /\ UNCHANGED <<requests, formVars, editorVars, notPay>>

\* MetaMask: disconnect
OakDisconnect ==
    /\ page = "oakpublisher"
    /\ HandleAccountsChanged(NoAccount)
    /\ last' = Quiet
    /\ UNCHANGED <<authorised, requests, formVars, editorVars, notPay>>

\* MetaMask: chainChanged reloads the page
OakChainChanged ==
    /\ page = "oakpublisher"
    /\ requests' = InitRequests
    /\ userAccount' = NoAccount
    /\ publishBtnDisabled' = FALSE
    /\ connectBtnDisabled' = FALSE
    /\ connectBtnHidden' = FALSE
    /\ selectedTier' = 0
    /\ publishes' = [r \in Runs |-> IdlePublish]
    /\ last' = Quiet
    /\ UNCHANGED <<authorised, proposalIds, payments, oakWire, editorVars, notPay>>

\* the user picks a tier: selectTier
SelectTier(tier) ==
    /\ page = "oakpublisher"
    /\ tier \in Tiers
    /\ selectedTier' = tier
    /\ last' = Quiet
    /\ UNCHANGED <<metaMaskVars, walletUiVars, publishes, proposalIds, payments,
                   oakWire, editorVars, notPay>>

\* the hash of the transaction that pays for a proposal
TransactionHash(proposalId) == proposalId

TxSucceededAlways(outcome) == TRUE
\* send() resolves with a receipt, or rejects
TxSucceeded(outcome) == outcome = "receipt"

\* the body submitContentToOak posts
OakBody(proposalId, txHash) ==
    [proposalId |-> proposalId, txHash |-> txHash, tier |-> selectedTier,
     paidBy |-> userAccount]

\* the form is submitted: handlePublish up to the payForProposal call
OakPublish ==
    /\ page = "oakpublisher"
    /\ ~publishBtnDisabled
    /\ \E filled \in BOOLEAN :
          IF userAccount = NoAccount \/ ~filled
          THEN /\ last' = Ended("oak", IF userAccount = NoAccount
                                        THEN "NotConnected" ELSE "Incomplete")
               /\ UNCHANGED <<publishBtnDisabled, publishes, proposalIds, payments>>
          ELSE /\ proposalIds < MaxProposals
               /\ \E r \in Runs :
                     /\ publishes[r].pc = "idle"
                     /\ \A q \in Runs : q < r => publishes[q].pc # "idle"
                     /\ publishes' = [publishes EXCEPT ![r] =
                           [pc |-> "tx", proposalId |-> proposalIds + 1,
                            tier |-> selectedTier]]
               /\ proposalIds' = proposalIds + 1
               /\ payments' = [payments EXCEPT ![proposalIds + 1] =
                     [status |-> "pending", tier |-> selectedTier]]
               /\ publishBtnDisabled' = TRUE
               /\ last' = Ended("oak", "Paying")
    /\ UNCHANGED <<metaMaskVars, userAccount, connectBtnDisabled, connectBtnHidden,
                   selectedTier, oakWire, editorVars, notPay>>

\* the payForProposal transaction of a run settles: the rest of handlePublish
\* up to the fetch of submitContentToOak, or its catch and finally
OakTxSettled ==
    /\ page = "oakpublisher"
    /\ \E r \in Runs, outcome \in {"receipt", "rejected", "failed"} :
          LET run == publishes[r] IN
          /\ run.pc = "tx"
          /\ payments' = [payments EXCEPT ![run.proposalId].status =
                IF outcome = "receipt" THEN "succeeded" ELSE "failed"]
          /\ IF TxSucceeded(outcome)
             THEN /\ oakWire' = oakWire \cup
                        {OakBody(run.proposalId, TransactionHash(run.proposalId))}
                  /\ publishes' = [publishes EXCEPT ![r].pc = "submit"]
                  /\ last' = Ended("oak", "Submitting")
                  /\ UNCHANGED publishBtnDisabled
             ELSE /\ publishes' = [publishes EXCEPT ![r] = IdlePublish]
                  /\ publishBtnDisabled' = FALSE
                  /\ last' = Ended("oak", outcome)
                  /\ UNCHANGED oakWire
    /\ UNCHANGED <<metaMaskVars, userAccount, connectBtnDisabled, connectBtnHidden,
                   selectedTier, proposalIds, editorVars, notPay>>

\* the fetch of submitContentToOak settles: the form is reset and the
\* finally of handlePublish runs
OakSubmitSettled ==
    /\ page = "oakpublisher"
    /\ \E r \in Runs, answer \in {"success", "warning", "error"} :
          /\ publishes[r].pc = "submit"
          /\ publishes' = [publishes EXCEPT ![r] = IdlePublish]
          /\ last' = RegistryEnded("oak", "FormReset", answer)
    /\ selectedTier' = 0
    /\ publishBtnDisabled' = FALSE
    /\ UNCHANGED <<metaMaskVars, userAccount, connectBtnDisabled, connectBtnHidden,
                   proposalIds, payments, oakWire, editorVars, notPay>>

\* the account the editor simulates in mock mode
MockAccount == MaxAccounts + 1

\* getEthereumTxHash returns a hash
TxHashImplemented(m) == m = "mock"

NeverBusy(submitting) == FALSE
\* the guard of handlePublish and handleUnpublish
Busy(submitting) == submitting

\* the finally of the editor's handlePublish or handleUnpublish; the one of
\* handleUnpublish enables the unpublish button and not the publish button
EditorEnd(outcome) ==
    /\ isSubmitting' = FALSE
    /\ editorBtnDisabled' = (flow.kind = "unpublish" /\ editorBtnDisabled)
    /\ flow' = IdleFlow
    /\ last' = Ended("editor", outcome)

\* enablePublishButton / disablePublishButton with handleAccountsChanged
EditorAccounts(account) ==
    /\ currentAccount' = account
    /\ walletOnclick' = (account = NoAccount)
    /\ editorBtnDisabled' = (account = NoAccount)

\* a click on #wallet-status: connectWallet, once for the listener and once
\* more while .onclick is set
EditorConnectClick ==
    /\ page = "editor"
    /\ LET calls == IF walletOnclick THEN 2 ELSE 1 IN
       IF mode = "mock"
       THEN /\ currentAccount' =
                  IF currentAccount = NoAccount THEN MockAccount ELSE currentAccount
            /\ walletOnclick' = FALSE
            /\ UNCHANGED requests
       ELSE /\ PendingIn(RequestKinds) + calls <= MaxPending
            /\ Request("eth_requestAccounts", "click", calls)
            /\ UNCHANGED <<currentAccount, walletOnclick>>
    /\ last' = Ended("editor", "Connecting")
    /\ UNCHANGED <<authorised, oakVars, mode, isSubmitting, editorBtnDisabled,
                   isPublished, flow, trace, notPay>>

\* a request of the editor's connectWallet settles
EditorConnectSettled ==
    /\ page = "editor"
    /\ \E k \in RequestKinds, a \in Approvable \cup {NoAccount} :
          /\ requests[k] > 0
          /\ Settle(k)
          /\ IF a # NoAccount
             THEN /\ authorised' = a
                  /\ EditorAccounts(a)
                  /\ last' = Ended("editor", "Connected")
             ELSE /\ last' = Ended("editor", "Rejected")
                  /\ UNCHANGED <<authorised, currentAccount, walletOnclick,
                                 editorBtnDisabled>>
    /\ UNCHANGED <<oakVars, mode, isSubmitting, isPublished, flow, trace, notPay>>

\* MetaMask: accountsChanged (the listener exists outside mock mode)
EditorAccountsChanged ==
    /\ page = "editor"
    /\ mode # "mock"
    /\ \E a \in (Accounts \cup {NoAccount}) \ {authorised} :
          /\ authorised' = a
          /\ EditorAccounts(a)
    /\ last' = Ended("editor", "AccountsChanged")
    /\ UNCHANGED <<requests, oakVars, mode, isSubmitting, isPublished, flow, trace,
                   notPay>>

\* MetaMask: chainChanged reloads the editor
EditorChainChanged ==
    /\ page = "editor"
    /\ mode # "mock"
    /\ requests' = NoRequests
    /\ currentAccount' = NoAccount
    /\ walletOnclick' = TRUE
    /\ isSubmitting' = FALSE
    /\ editorBtnDisabled' = TRUE
    /\ isPublished' \in BOOLEAN
    /\ flow' = IdleFlow
    /\ trace' = <<>>
    /\ last' = Ended("editor", "Reloaded")
    /\ UNCHANGED <<authorised, oakVars, mode, notPay>>

\* a click on #publish-btn: handlePublish up to its first timer or fetch
EditorPublish ==
    /\ page = "editor"
    /\ ~editorBtnDisabled
    /\ \E valid \in BOOLEAN :
          IF Busy(isSubmitting) \/ ~valid
                \/ (currentAccount = NoAccount /\ mode # "mock")
          THEN /\ last' = Ended("editor", IF Busy(isSubmitting) THEN "Busy"
                                                                ELSE "Ignored")
               /\ UNCHANGED <<isSubmitting, editorBtnDisabled, flow, trace>>
          ELSE /\ trace' = <<"address", "txhash">>
               /\ IF TxHashImplemented(mode)
                  THEN /\ isSubmitting' = TRUE
                       /\ editorBtnDisabled' = TRUE
                       /\ flow' = [pc |-> "txhash", polls |-> 0, kind |-> "publish",
                                   running |-> flow.running + 1]
                       /\ last' = Ended("editor", "Paying")
                  ELSE EditorEnd("NotImplemented")
    /\ UNCHANGED <<metaMaskVars, oakVars, mode, currentAccount, walletOnclick,
                   isPublished, notPay>>

\* a click on #unpublish-btn (shown while the content is published, disabled
\* while an unpublish runs): handleUnpublish up to its first timer
EditorUnpublish ==
    /\ page = "editor"
    /\ isPublished
    /\ ~(flow.kind = "unpublish" /\ flow.pc # "idle")
    /\ \E confirmed \in BOOLEAN :
          IF Busy(isSubmitting) \/ ~isPublished \/ ~confirmed
          THEN /\ last' = Ended("editor", IF Busy(isSubmitting) THEN "Busy"
                                                                ELSE "Ignored")
               /\ UNCHANGED <<isSubmitting, flow, trace>>
          ELSE /\ trace' = <<"address", "txhash">>
               /\ IF TxHashImplemented(mode)
                  THEN /\ isSubmitting' = TRUE
                       /\ flow' = [pc |-> "txhash", polls |-> 0, kind |-> "unpublish",
                                   running |-> flow.running + 1]
                       /\ last' = Ended("editor", "UnpublishPaying")
                  ELSE /\ isSubmitting' = FALSE
                       /\ flow' = IdleFlow
                       /\ last' = Ended("editor", "UnpublishNotImplemented")
    /\ UNCHANGED <<metaMaskVars, oakVars, mode, currentAccount, walletOnclick,
                   editorBtnDisabled, isPublished, notPay>>

\* the mock hash is returned: signProposal posts to /bin/blockchain/sign-proposal
\* (the steps from here on are those of a publish and of an unpublish)
EditorTxHash ==
    /\ page = "editor"
    /\ flow.pc = "txhash"
    /\ flow' = [flow EXCEPT !.pc = "sign"]
    /\ trace' = Append(trace, "sign")
    /\ last' = Ended("editor", "Signing")
    /\ UNCHANGED <<metaMaskVars, oakVars, mode, currentAccount, walletOnclick,
                   isSubmitting, editorBtnDisabled, isPublished, notPay>>

\* the signing servlet answers: submitToValidator posts to /v1/propose-write,
\* submitUnpublishToValidator to /v1/propose-delete
EditorSigned ==
    /\ page = "editor"
    /\ flow.pc = "sign"
    /\ \E ok \in BOOLEAN :
          IF ok
          THEN /\ flow' = [flow EXCEPT !.pc = "submit"]
               /\ trace' = Append(trace, IF flow.kind = "unpublish" THEN "delete"
                                                                     ELSE "submit")
               /\ last' = Ended("editor", "Submitting")
               /\ UNCHANGED <<isSubmitting, editorBtnDisabled>>
          ELSE /\ EditorEnd("SignFailed")
               /\ UNCHANGED trace
    /\ UNCHANGED <<metaMaskVars, oakVars, mode, currentAccount, walletOnclick,
                   isPublished, notPay>>

\* the validator answers: waitForFinality asks for the proposal's status
EditorSubmitted ==
    /\ page = "editor"
    /\ flow.pc = "submit"
    /\ \E ok \in BOOLEAN :
          IF ok
          THEN /\ flow' = [flow EXCEPT !.pc = "poll", !.polls = 1]
               /\ trace' = Append(trace, "poll")
               /\ last' = Ended("editor", "Polling")
               /\ UNCHANGED <<isSubmitting, editorBtnDisabled>>
          ELSE /\ EditorEnd("ValidatorRejected")
               /\ UNCHANGED trace
    /\ UNCHANGED <<metaMaskVars, oakVars, mode, currentAccount, walletOnclick,
                   isPublished, notPay>>

\* a status poll answers, and POLL_TIMEOUT has passed or not
EditorPolled ==
    /\ page = "editor"
    /\ flow.pc = "poll"
    /\ \E state \in {"FINALIZED", "REJECTED", "PENDING", "error"},
          timedOut \in BOOLEAN :
          CASE state = "FINALIZED" ->
                 /\ EditorEnd(IF flow.kind = "unpublish" THEN "Unpublished"
                                                           ELSE "Published")
                 /\ isPublished' = (flow.kind # "unpublish")
            [] state = "REJECTED" ->
                 /\ EditorEnd("ProposalRejected")
                 /\ UNCHANGED isPublished
            [] OTHER ->
                 /\ UNCHANGED isPublished
                 /\ IF timedOut
                    THEN EditorEnd("Timeout")
                    ELSE /\ flow.polls < MaxPolls
                         /\ flow' = [flow EXCEPT !.polls = @ + 1]
                         /\ last' = Ended("editor", "Polling")
                         /\ UNCHANGED <<isSubmitting, editorBtnDisabled>>
    /\ UNCHANGED <<metaMaskVars, oakVars, mode, currentAccount, walletOnclick,
                   trace, notPay>>

\* one of the two pages, loaded; MetaMask may have authorised the site before
InitPay ==
    /\ \E pg \in {"oakpublisher", "editor"} : CoreInit(pg)
    /\ session = NoWallet
    /\ SignInInit
    /\ availPending = FALSE
    /\ WsInit
    /\ SseInit
    /\ \E auth \in Accounts \cup {NoAccount}, m \in Modes, published \in BOOLEAN :
          /\ page = "oakpublisher" => m = "mock" /\ ~published
          /\ PayLoaded(auth, IF page = "oakpublisher" THEN InitRequests
                                                       ELSE NoRequests, m, published)

NextPay ==
    \/ \E by \in Callers : OakRecheck(by)
    \/ OakCheckSettled \/ OakConnectClick \/ OakConnectSettled
    \/ OakAccountsChanged \/ OakDisconnect \/ OakChainChanged
    \/ \E tier \in Tiers : SelectTier(tier)
    \/ OakPublish \/ OakTxSettled \/ OakSubmitSettled
    \/ EditorConnectClick \/ EditorConnectSettled \/ EditorAccountsChanged
    \/ EditorChainChanged
    \/ EditorPublish \/ EditorUnpublish \/ EditorTxHash \/ EditorSigned \/ EditorSubmitted
    \/ EditorPolled

SpecPay == InitPay /\ [][NextPay]_vars

(***************************************************************************)
(* Properties.                                                             *)
(***************************************************************************)
\* the kinds of value that identify without giving signing power
PublicKinds == {"null", "credentialId", "p256PubKeyBase64", "ethAddress",
                "secp256k1PublicKey", "truncatedHashAddress"}

\* C1: whatever setups, registrations, signing runs, page loads and closed
\* tabs have happened, every value in localStorage is a public identifier
\* (a credential id, an address, a public key) and none is a derived private
\* key.
C1_NoDurableSecret ==
    \A k \in LocalKeys :
        /\ localStorage[k].t \in PublicKinds
        /\ localStorage[k] \notin PrivateKeys

\* a wallet was set up with a derived key, and the tab that held the private
\* key has been closed
C1_SetupThenSessionCleared ==
    /\ loads > 0
    /\ localStorage["blockchain_aem_secp256k1_pubkey"] # Null
    /\ localStorage["blockchain_aem_p256_pubkey"] # Null
    /\ sessionStorage["blockchain_aem_private_key"] = Null

\* the state of the Proposal Signer a signWriteProposal run is in; the
\* availability check and the wallet lookup precede the challenge request
SignerState(p) ==
    CASE p.pc = "challenge" -> "ChallengeRequested"
      [] p.pc = "prompt"    -> "AwaitingAssertion"
      [] p.pc = "submit"    -> "Verifying"
      [] OTHER              -> "Idle"

SignerSteps == {<<"Idle", "ChallengeRequested">>,
                <<"ChallengeRequested", "AwaitingAssertion">>,
                <<"AwaitingAssertion", "Verifying">>}

\* C2: a signWriteProposal run moves Idle -> ChallengeRequested ->
\* AwaitingAssertion -> Verifying and from any of them to its end, never
\* otherwise; the step that shows the assertion prompt is the step that
\* received the challenge issued for this run's request, and the step that
\* submits the proposal is the step that received the assertion, over that
\* same challenge.
C2_StepOrder ==
    [][/\ SignerState(pub') # SignerState(pub)
            => \/ <<SignerState(pub), SignerState(pub')>> \in SignerSteps
               \/ pub'.pc = "idle" /\ last'.who = "pub"
       /\ (SignerState(pub') = "AwaitingAssertion" /\ SignerState(pub) # "AwaitingAssertion")
            => /\ Len(challenges') = Len(challenges) + 1
               /\ challenges'[Len(challenges')].bound = pub.request
               /\ pub'.nonce = challenges'[Len(challenges')].nonce
               /\ "pub" \in prompts' \ prompts
       /\ (SignerState(pub') = "Verifying" /\ SignerState(pub) # "Verifying")
            => /\ last'.auth = "ok"
               /\ pub'.nonce = pub.nonce
               /\ wire' \ wire \subseteq {ProposalBody(pub, Assertion(pub.cred, pub.nonce))}
               /\ ProposalBody(pub, Assertion(pub.cred, pub.nonce)) \in wire'
      ]_vars

\* a run went through every state and was accepted
C2_RunSigned == last.who = "pub" /\ last.outcome = "Signed"

\* C3: under one challenge at most one proposal is ever accepted; once the
\* challenge is consumed the verifier answers ChallengeConsumed to every
\* proposal sent for it, whether or not its assertion verifies, and a run
\* whose proposal arrives after the acceptance ends with ChallengeConsumed.
C3_SingleUse ==
    /\ \A i \in DOMAIN challenges :
          /\ challenges[i].accepted <= 1
          /\ challenges[i].consumed
                => \A body \in wire, signatureVerifies \in BOOLEAN :
                      body.challenge = i
                         => Verify(body, signatureVerifies) = "ChallengeConsumed"
    /\ (last.who = "pub" /\ last.consumed) => last.outcome = "ChallengeConsumed"

\* the proposal of a run reached the verifier after a copy of it had been
\* accepted, and was refused
C3_SecondSubmissionRefused ==
    /\ last.who = "pub"
    /\ last.outcome = "ChallengeConsumed"
    /\ challenges[last.nonce].accepted = 1

\* C4: the verifier refuses a proposal whose tier is not the tier of the
\* request the challenge was issued for.
C4_TamperedTierRejected ==
    \A body \in wire, t \in Tiers, signatureVerifies \in BOOLEAN :
        t # body.tier
           => Verify([body EXCEPT !.tier = t], signatureVerifies) # "Signed"

\* C5: the challenge request carries the path, a digest of the content and
\* the tier.
C5_RequestCarriesAll ==
    pub.pc = "challenge"
       => {"path", "contentDigest", "tier"} \subseteq DOMAIN pub.request

RunOver(o) ==
    CASE o.who = "reg" -> reg.pc = "idle"
      [] o.who = "pub" -> pub.pc = "idle"
      [] OTHER         -> FALSE

\* C7: the step in which register or signWriteProposal learns that the
\* prompt was cancelled (NotAllowedError) ends the operation with the
\* cancellation error; that step writes nothing to localStorage or
\* sessionStorage, sends no proposal and requests no challenge, and leaves
\* the run with no request in flight.
C7_CancelEndsRun ==
    /\ []((last.who \in {"reg", "pub"} /\ last.auth = "NotAllowedError")
            => last.outcome = "UserCancelled" /\ RunOver(last))
    /\ [][(last'.who \in {"reg", "pub"} /\ last'.auth = "NotAllowedError")
            => /\ localStorage' = localStorage
               /\ sessionStorage' = sessionStorage
               /\ wire' = wire
               /\ challenges' = challenges]_vars

\* the assertion prompt of a signing run was cancelled
C7_SignPromptCancelled ==
    /\ last.who = "pub"
    /\ last.auth = "NotAllowedError"
    /\ Len(challenges) > 0

\* C8: at most one hardware prompt is outstanding.
C8_OnePromptAtATime == Cardinality(prompts) <= 1

\* how often x occurs in the sequence s
Count(s, x) == Cardinality({i \in DOMAIN s : s[i] = x})

\* C9: a signWriteProposal run requests at most one challenge and shows at
\* most one prompt; the step that ends a run, with whatever outcome, leaves
\* nothing of it running and sends nothing; and a proposal that is sent
\* carries a challenge no earlier proposal carried.
C9_NoSilentRetry ==
    /\ [](/\ Count(pub.log, "challengeRequest") <= 1
          /\ Count(pub.log, "getPrompt") <= 1)
    /\ [][/\ last'.who = "pub"
              => (pub' = IdlePub /\ wire' = wire /\ "pub" \notin prompts')
          /\ \A b \in wire' \ wire :
                /\ \A b0 \in wire : b0.challenge # b.challenge
                /\ b.challenge = Len(challenges)
          /\ (pub'.pc = "challenge" /\ pub.pc # "challenge")
              => pub.pc = "wallet"]_vars

\* after a run that failed, a second run has sent its proposal
C9_SecondAttemptSent ==
    /\ pub.pc = "submit"
    /\ pub.nonce = 2
    /\ Cardinality(wire) = 1

\* C10: localStorage changes only in a step that received the registry's
\* acceptance, and a registration or setup that ends with an error leaves
\* localStorage and sessionStorage as they were.
C10_StoreOnlyAfterAccept ==
    [][/\ localStorage' # localStorage
           => last'.registry = "201" /\ last'.outcome = "ok"
       /\ (last'.who \in {"reg", "setup"} /\ last'.outcome # "ok")
           => localStorage' = localStorage /\ sessionStorage' = sessionStorage
      ]_vars

\* the registry refused a registration and nothing is stored
C10_RegistryRefused ==
    /\ last.who \in {"reg", "setup"}
    /\ last.registry \in {"DuplicateCredential", "InvalidProof", "RegistryUnavailable"}
    /\ \A k \in LocalKeys : localStorage[k] = Null

\* the outcomes with which an operation resolves
Successes == {"ok", "Signed"}

\* C11: a register or signWriteProposal run ends only by handing its caller
\* an outcome.  It resolves only from its last step, register on the
\* registry's acceptance and signWriteProposal on a proposal the verifier
\* accepted; when the authenticator or the registry answered with an error,
\* the outcome is an error naming it.
C11_ErrorsReachCaller ==
    /\ []((last.who \in {"reg", "pub"})
            => /\ last.outcome # ""
               /\ (last.auth \notin {"", "ok"}) => last.outcome = PromptError(last.auth)
               /\ (last.registry \notin {"", "201"}) => last.outcome = last.registry
               /\ (last.who = "reg" /\ last.outcome \in Successes)
                     => last.registry = "201"
               /\ (last.who = "pub" /\ last.outcome \in Successes)
                     => (/\ challenges[last.nonce].accepted = 1
                         /\ ~last.consumed
                         /\ ~last.late))
    /\ [][/\ (reg.pc # "idle" /\ reg'.pc = "idle" /\ loads' = loads)
              => (/\ last'.who = "reg"
                  /\ last'.outcome \in Successes => reg.pc = "fetch")
          /\ (pub.pc # "idle" /\ pub'.pc = "idle" /\ loads' = loads)
              => (/\ last'.who = "pub"
                  /\ last'.outcome \in Successes => pub.pc = "submit")]_vars

\* the verifier's rejection of a proposal reached the caller
C11_RejectionReported ==
    /\ last.who = "pub"
    /\ last.outcome = "SignatureMismatch"
    /\ challenges[last.nonce].accepted = 0

\* C12: register and signWriteProposal query the authenticator in their
\* first step, in every call.  A call that learns that no platform
\* authenticator is available ends there with NotAvailable: that step shows
\* no prompt, requests no challenge, sends no proposal and writes no
\* storage.  The prompt of register and the wallet lookup of
\* signWriteProposal are reached only from a step that found the
\* authenticator available.
C12_AvailabilityFirst ==
    /\ []((last.avail \notin {"", "true"})
            => last.outcome = "NotAvailable" /\ RunOver(last))
    /\ [][/\ (last'.avail \notin {"", "true"})
              => (/\ prompts' = prompts
                  /\ localStorage' = localStorage
                  /\ sessionStorage' = sessionStorage
                  /\ challenges' = challenges
                  /\ wire' = wire)
          /\ (reg'.pc = "prompt" /\ reg.pc # "prompt")
              => (reg.pc = "avail" /\ last'.avail = "true")
          /\ (pub'.pc = "wallet" /\ pub.pc # "wallet")
              => (pub.pc = "avail" /\ last'.avail = "true")
          /\ (pub'.pc \in {"challenge", "prompt", "submit"} /\ pub.pc # pub'.pc)
              => pub.pc \in {"wallet", "challenge", "prompt"}]_vars

\* a call found no authenticator although an earlier call on the same page
\* had found one and registered a credential
C12_UnavailableAfterAvailable ==
    /\ last.who = "pub"
    /\ last.avail \in {"false", "error", "unsupported"}
    /\ session \in Wallets
    /\ GetStoredCredentialId(localStorage, session) # Null
    /\ loads = 0

\* C13: the step of signWriteProposal that requests the challenge has read
\* the credential id stored under the wallet of the session, and there is
\* one; the prompt and the proposal of the run are scoped to that id.  When
\* nothing is stored under the wallet of the session the run ends with
\* NoPasskey in the step that looked, which requests no challenge, shows no
\* prompt and sends nothing.
C13_CredentialOfActiveWallet ==
    [][/\ (pub'.pc = "challenge" /\ pub.pc # "challenge")
          => (/\ pub'.wallet = session
              /\ pub'.cred = localStorage[CredentialKey(session)]
              /\ pub'.cred # Null)
       /\ (pub'.pc = "prompt" /\ pub.pc # "prompt")
          => (pub'.cred = pub.cred /\ pub'.wallet = pub.wallet)
       /\ \A b \in wire' \ wire :
             /\ b.signature.credentialId = pub.cred
             /\ b.credentialId = pub.cred
             /\ b.walletAddress = pub.wallet
       /\ (last'.who = "pub" /\ last'.outcome = "NoPasskey")
          => (/\ pub.pc = "wallet"
              /\ localStorage[CredentialKey(session)] = Null
              /\ challenges' = challenges
              /\ prompts' = prompts
              /\ wire' = wire)
      ]_vars

\* a run ended with NoPasskey although a credential is stored, under the
\* other wallet
C13_OtherWalletHasCredential ==
    /\ last.who = "pub"
    /\ last.outcome = "NoPasskey"
    /\ \E w \in Wallets \ {session} : localStorage[CredentialKey(w)] # Null

\* C14: no storage holds a derived private key unless caching was asked
\* for; setupBiometricWallet has no parameter to ask with, so none is held.
C14_PrivateKeyAbsentByDefault ==
    /\ \A k \in SessionKeys : sessionStorage[k] \notin PrivateKeys
    /\ \A k \in LocalKeys : localStorage[k] \notin PrivateKeys

C16_OneAddressPerKey ==
    \A k \in KeyInputs : \A r \in derived[k] :
        WellFormedKey(k) => r.address = deriveEthereumWallet(k).address

\* C17: a registration is submitted to the registry only with a well-formed
\* public key: never with the all-zero placeholder that stands in when the
\* authenticator's response has no getPublicKey, never with malformed bytes.
C17_NoPlaceholderSubmitted ==
    reg.pc = "fetch" => WellFormedKey(reg.key)

\* C18: a signWriteProposal run gives up on a proposal that could not be
\* delivered only after it has sent it again: when the run ends with the
\* submission's failure, its log holds more than one submission of the one
\* assertion it obtained.
C18_FailedSubmissionRetried ==
    [][(last'.who = "pub" /\ last'.outcome = "SubmissionFailed")
          => /\ Count(pub.log, "submit") >= 2
             /\ Count(pub.log, "assertion") = 1]_vars

\* C19: the wallet signature of a registration on its way to the registry
\* is over the credential id, the public key and the device label that the
\* same registration carries.
C19_SignatureCoversPayload ==
    reg.pc = "fetch"
       => LET signed == reg.body.walletSignature.over
          IN  /\ signed.credentialId = reg.body.credentialId
              /\ signed.publicKey = reg.body.publicKey
              /\ "deviceName" \in DOMAIN signed
              /\ signed.deviceName = reg.body.deviceName

\* C20: the private key of every identity the secp256k1 derivation returns
\* is a valid scalar of the curve, also for a public key whose hash is not
\* one.
C20_NoInvalidKeyReturned ==
    \A k \in KeyInputs : \A r \in derived[k] :
        r.impl = "secp256k1" => ScalarInRange(r.privateKey)

\* C21: isAvailable always resolves with a boolean, and with false when the
\* credential API is missing, when the platform check answers false and when
\* the platform check throws; a call made for its own sake changes nothing
\* of the page, of a run in progress, of the storage.
C21_IsAvailableSafeToPoll ==
    /\ [](/\ probe.result \in BOOLEAN
          /\ (~probe.supported \/ probe.answer # "true") => (probe.result = FALSE))
    /\ [][(probe' # probe /\ probe'.by = "load")
            => UNCHANGED <<si, mm, siBtnDisabled, mmBtnDisabled, availPending,
                           redirects, loginChallenges, page, prompts,
                           notSignIn>>]_vars

\* while the sign-in prompt was showing, isAvailable was called and its
\* platform check threw
C21_PolledDuringPrompt ==
    /\ si.pc = "prompt"
    /\ probe.by = "load"
    /\ probe.supported
    /\ probe.answer = "error"
    /\ probe.result = FALSE

\* the steps of a biometric sign-in that reaches the login endpoint
SignInSteps == <<"click", "wallet", "credential", "challengeRequest", "challenge",
                 "prompt", "assertion", "submit">>

\* C22: the redirect of a biometric sign-in is set only by the step in which
\* the login endpoint accepted the sign-in; that sign-in carried the
\* assertion over the challenge this run requested, after the run had gone
\* through wallet lookup, credential check, challenge, prompt and
\* submission in this order; a sign-in that ends with an error sets no
\* redirect and leaves the page; and the page is left only through a
\* redirect an accepted sign-in has set.
C22_RedirectOnlyAfterAcceptance ==
    [][/\ ("signin" \in redirects' /\ "signin" \notin redirects)
           => (/\ si.pc = "submit"
               /\ last'.who = "signin"
               /\ last'.registry = "200"
               /\ si.log = SignInSteps
               /\ si.challenge > si.issued
               /\ si.challenge = loginChallenges
               /\ si.body.challenge = si.challenge
               /\ si.body.assertion.challenge = si.challenge
               /\ si.body.credentialId = GetStoredCredentialId(localStorage,
                                                               si.wallet))
       /\ (last'.who = "signin" /\ last'.outcome \notin {"ok", "redirect"})
           => (redirects' = redirects /\ page' = page)
       /\ page' # page
           => (redirects # {} /\ last'.who \in redirects /\ page' = "dashboard")
      ]_vars

\* the dashboard was reached through a biometric sign-in that had failed
\* once before
C22_RedirectedAfterSecondAttempt ==
    /\ page = "dashboard"
    /\ last.who = "signin"
    /\ loginChallenges = 2

\* C23: reconnectAttempts never exceeds maxReconnectAttempts; a socket that
\* opens sets it to 0; a socket that closes while the limit is not reached
\* has its reconnect scheduled, and each scheduled reconnect is counted;
\* at the limit 'reconnect-failed' is emitted and no timer is set.
C23_ReconnectBounded ==
    /\ [](reconnectAttempts \in 0..maxReconnectAttempts)
    /\ [][/\ (last'.who = "ws" /\ last'.outcome = "connected")
               => (reconnectAttempts' = 0)
          /\ ((\E s \in Slots : sockets[s] # "none" /\ sockets'[s] = "none")
                 /\ reconnectAttempts < maxReconnectAttempts)
               => (/\ reconnectTimers' = reconnectTimers + 1
                   /\ reconnectAttempts' = reconnectAttempts + 1)
          /\ (reconnectTimers' > reconnectTimers)
               => (/\ reconnectAttempts < maxReconnectAttempts
                   /\ reconnectAttempts' = reconnectAttempts + 1)
          /\ (last'.who = "ws" /\ last'.outcome = "reconnect-failed")
               => (/\ reconnectAttempts = maxReconnectAttempts
                   /\ reconnectAttempts' = reconnectAttempts
                   /\ reconnectTimers' <= reconnectTimers)
      ]_vars

\* the tenth reconnect in a row has failed and the manager has given up
C23_GaveUp ==
    /\ ~wsStopped
    /\ reconnectAttempts = maxReconnectAttempts
    /\ last.who = "ws"
    /\ last.outcome = "reconnect-failed"
    /\ reconnectTimers = 0

\* C24: from disconnect() until the application calls connect() again, no
\* step creates a socket.
C24_NoSocketWhileStopped ==
    [][(wsStopped /\ wsStopped')
          => (\A s \in Slots : sockets'[s] = "connecting" => sockets[s] = "connecting")
      ]_vars

\* C25: the reconnect delay of the SSE manager is between 1000 and 30000 ms;
\* a step that schedules a reconnect sets the timer with the current delay
\* and doubles the delay, to 30000 at most; a connection that opens sets it
\* to 1000; nothing else changes it.
C25_Backoff ==
    /\ [](reconnectDelay >= 1000 /\ reconnectDelay <= 30000)
    /\ [][/\ (last'.who = "sse" /\ last'.outcome \in {"scheduled", "disconnect"})
               => (/\ reconnectDelay' = IF 2 * reconnectDelay <= 30000
                                           THEN 2 * reconnectDelay ELSE 30000
                   /\ sseTimers'[reconnectDelay] > 0)
          /\ (last'.who = "sse" /\ last'.outcome = "connected")
               => (reconnectDelay' = 1000)
          /\ ~(last'.who = "sse" /\ last'.outcome \in {"scheduled", "disconnect",
                                                        "connected"})
               => (reconnectDelay' = reconnectDelay /\ SseTimerCount' <= SseTimerCount)
      ]_vars

\* the delay has reached the cap: the reconnect after the one with 16000 ms
\* is scheduled and the next will wait 30000 ms
C25_DelayAtCap ==
    /\ reconnectDelay = 30000
    /\ sseTimers[16000] > 0
    /\ last.outcome = "disconnect"


ValidPublishClicked ==
    /\ last.who = "editor"
    /\ last.outcome \in {"Paying", "NotImplemented"}
    /\ currentAccount # NoAccount

\* C27: in every mode a valid publish with a connected wallet takes the
\* steps of the unified flow: after the click the run has its wallet address,
\* is obtaining the Ethereum tx hash and goes on to sign, submit and poll.
C27_PublishRunsInEveryMode ==
    ValidPublishClicked =>
        /\ isSubmitting
        /\ flow.pc = "txhash"
        /\ trace = <<"address", "txhash">>

\* C28: every body posted to the Oak publish servlet belongs to a publish
\* whose payForProposal transaction has succeeded and carries the hash of that
\* transaction; for a transaction that was rejected or has failed nothing is
\* posted.
C28_SubmittedOnlyAfterPayment ==
    /\ \A body \in oakWire :
          /\ payments[body.proposalId].status = "succeeded"
          /\ body.txHash = TransactionHash(body.proposalId)
    /\ \A r \in Runs :
          publishes[r].pc = "submit" =>
              /\ payments[publishes[r].proposalId].status = "succeeded"
              /\ \E body \in oakWire : body.proposalId = publishes[r].proposalId

\* one publish has been paid and posted, another has had its transaction
\* rejected
C28_OnePaidOneRejected ==
    /\ \E body \in oakWire : payments[body.proposalId].status = "succeeded"
    /\ \E p \in ProposalIds :
          /\ payments[p].status = "failed"
          /\ \A body \in oakWire : body.proposalId # p

\* C30: at most one payForProposal transaction is in flight, and while a
\* publish awaits its transaction or its content submission the publish
\* button is disabled.
C30_OnePublishAtATime ==
    /\ Cardinality({r \in Runs : publishes[r].pc = "tx"}) <= 1
    /\ \A r \in Runs : publishes[r].pc \in {"tx", "submit"} => publishBtnDisabled

\* C31: the tier a body reports to the Oak servlet is the tier its publish
\* paid for in payForProposal, whatever the user selects while the
\* transaction is pending.
C31_ReportedTierIsPaidTier ==
    \A body \in oakWire : body.tier = payments[body.proposalId].tier

\* C32: while the eth_requestAccounts request of connectWallet is pending the
\* connect button cannot be clicked, so that no second connection request is
\* made before the first settles, whatever re-checks and MetaMask events
\* happen meanwhile.
C32_OneConnectionRequest ==
    LET popup == [method |-> "eth_requestAccounts", by |-> "click"] IN
    page = "oakpublisher" /\ requests[popup] > 0 =>
        /\ connectBtnDisabled \/ connectBtnHidden
        /\ requests[popup] = 1

\* C33: a run of handleBiometricPublish that has ended (with success, with an
\* error or at the validation of the form) leaves the publish button enabled,
\* or leaves the timer pending that enables it.
C33_ButtonEnabledAfterPublish ==
    last.who = "pub" /\ pub.pc = "idle" => ~pubBtnDisabled \/ pubTimer

\* C34: in the editor at most one publish or unpublish flow is in progress,
\* isSubmitting is true exactly while one is, and it is false again when the
\* flow has ended, however it ended.
C34_OneFlowAtATime ==
    /\ flow.running <= 1
    /\ isSubmitting <=> flow.pc # "idle"
    /\ (last.who = "editor" /\ last.outcome \in
           {"Published", "Unpublished", "ProposalRejected", "Timeout",
            "SignFailed", "ValidatorRejected", "NotImplemented",
            "UnpublishNotImplemented"}) => ~isSubmitting /\ flow.running = 0

\* an unpublish was clicked, and turned away, while a publish was polling
C34_UnpublishDuringPublish ==
    /\ last.who = "editor"
    /\ last.outcome = "Busy"
    /\ flow.kind = "publish"
    /\ flow.pc = "poll"
    /\ isPublished

\* C35: when the delivery of the content to the Oak servlet has failed after
\* the payment (a transport error or an answer that is not a success), the
\* publish does not end as a successful one does: the form is not reset.
C35_FailedDeliveryNotReset ==
    last.who = "oak" /\ last.registry \in {"warning", "error"} =>
        last.outcome # "FormReset"

\* setupBiometricWallet has completed: its address and credential id are in
\* localStorage
SetupStored ==
    \/ /\ localStorage["blockchain_aem_wallet_address"] # Null
       /\ localStorage["blockchain_aem_credential_id"] # Null
    \/ /\ localStorage["blockchain_aem_biometric_wallet"] # Null
       /\ localStorage["blockchain_aem_biometric_credential_id"] # Null

\* C36: once setupBiometricWallet has completed, a biometric sign-in finds
\* the stored wallet address and credential id: it does not end for want of
\* a wallet or of a registered credential, and goes on to the prompt.
C36_SignInFindsSetup ==
    SetupStored /\ (\A w \in Wallets : localStorage[CredentialKey(w)] = Null) =>
        ~(last.who = "signin" /\ last.outcome \in {"NoWallet", "NotRegistered"})
=============================================================================
